---- MODULE Spec2Model ----
(***************************************************************************)
(* State-machine model of minicoro (ondra-novak/minicoro).                 *)
(*                                                                         *)
(* Part I  : coro_mutex (src/coro_mutex.h) - the lock-free request stack,  *)
(*           the holder's queue and the ownership tokens, one step per     *)
(*           access to shared memory of try_lock / add_request / unlock.   *)
(* Part II : awaitable / awaitable_result / coroutine (src/coroutine.h).   *)
(***************************************************************************)
EXTENDS Integers, Sequences, FiniteSets, TLC

\* ------------------------------------------------------------------------
\* Bounds
\* ------------------------------------------------------------------------
\* number of acquirers (each one thread plus the consumer awaiting its lock)
NAcq == 3
\* number of lock()/try_lock() calls in one run that acquire or enqueue: one
\* acquirer calls twice
MaxCalls == NAcq + 1

Acquirers == 1..NAcq

\* ------------------------------------------------------------------------
\* Part I : coro_mutex
\* ------------------------------------------------------------------------
\* pointer values of slot* : nullptr, the doorman, or the slot of acquirer a
Null == 0
Doorman == 0 - 1
Slots == Acquirers
Ptr == {Null, Doorman} \cup Slots

VARIABLES
    requests,   \* coro_mutex::_requests  (atomic stack top)
    queue,      \* coro_mutex::_queue     (holder's FIFO head)
    next,       \* slot::_next of every slot
    pc,         \* position of each acquirer's lock()/add_request call
    from,       \* add_request: make_queue's `from`, first the value returned by _requests.exchange
    fromN,      \* add_request: make_queue's local `n`
    upc,        \* position of each acquirer's release()/unlock call
    ufrom,      \* unlock: make_queue's `from`, first the value returned by _requests.exchange(d)
    ufromN,     \* unlock: make_queue's local `n`
    uf,         \* unlock: the local `f`
    held,       \* number of ownership objects (_owning != nullptr) the acquirer holds
    waiting,    \* the acquirer's awaitable<ownership> is unresolved, its Result is in slot::_resume
    calls,      \* lock()/try_lock() calls so far that acquired or enqueued
    started,    \* acquirers that have issued a call: they are numbered in the order of their first call
    crashed,    \* the process was terminated by a fault
    pushNo,     \* history: position of the slot's push in the global push order
    drainNo,    \* history: number of the drain (exchange + make_queue) that captured the slot
    grantNo,    \* history: position of the slot's grant in the global grant order
    pushCnt, drainCnt, grantCnt

mutexVars == <<requests, queue, next, pc, from, fromN, upc, ufrom, ufromN, uf, held, waiting, calls,
               started, crashed, pushNo, drainNo, grantNo, pushCnt, drainCnt, grantCnt>>


MutexIdle ==
    /\ requests = Null
    /\ queue = Null
    /\ next = [s \in Slots |-> Null]
    /\ pc = [a \in Acquirers |-> "idle"]
    /\ from = [a \in Acquirers |-> Null]
    /\ fromN = [a \in Acquirers |-> Null]
    /\ upc = [a \in Acquirers |-> "idle"]
    /\ ufrom = [a \in Acquirers |-> Null]
    /\ ufromN = [a \in Acquirers |-> Null]
    /\ uf = [a \in Acquirers |-> Null]
    /\ held = [a \in Acquirers |-> 0]
    /\ waiting = [a \in Acquirers |-> FALSE]
    /\ calls = 0
    /\ started = 0
    /\ crashed = FALSE
    /\ pushNo = [s \in Slots |-> 0]
    /\ drainNo = [s \in Slots |-> 0]
    /\ grantNo = [s \in Slots |-> 0]
    /\ pushCnt = 0
    /\ drainCnt = 0
    /\ grantCnt = 0

\* ---- declarations of Part II (awaitable, awaitable_result, coroutine) ----
\* one producer (a task, an inline closure or a boxed closure) is created in
\* future 1; further futures come from move construction and from the
\* awaitable inside an awaiting_callback frame (set_callback)
NFut == 2
\* consumers that register with co_await / wait() / create_result
NCons == 2

\* number of calls the program makes on its futures in one run
MaxOps == 4

FutIds == 1..NFut
Coros == 1..NCons
\* the awaiting_callback frame created by set_callback
Cb == NCons + 1
Consumers == 1..Cb
\* an empty coroutine_handle / a null awaitable pointer
NoOne == Null
NoFut == Null

Resolved == {"no_value", "value", "exception"}
Pending == {"coro", "callback", "callback_ptr"}
States == Resolved \cup Pending

\* what the body of a started task does until its next suspension point
TaskOutcomes == {"return", "throw", "suspend"}
\* what an invoked closure does with the Result it is given
ClosureOutcomes == {"value", "error", "drop", "drop_exc", "keep"}
OutcomesFor(st) == IF st = "coro" THEN TaskOutcomes ELSE ClosureOutcomes

VARIABLES
    state,      \* awaitable::_state of every future
    owner,      \* awaitable::_owner (NoOne = empty handle)
    life,       \* "none" (not constructed), "alive", "dead" (destructor has run)
    has,        \* the union member holds a live producer: _coro handle non-null,
                \* closure object constructed, _callback_ptr non-null
    results,    \* number of awaitable_result objects bound to the future
    task,       \* frame of the task: "none", "initial", "suspended", "finished", "destroyed"
    target,     \* promise_type_base::_target of the task
    runs,       \* how many times the producer was started (task body / closure call)
    detached,   \* how many of these starts had no Result (detached mode)
    isdet,      \* what co_await is_detached() gave the task body: "none", "yes", "no"
    resumed,    \* how many times each consumer was resumed / invoked
    seen,       \* what await_resume gave the consumer when it was resumed
    awaits,     \* the future the consumer registered on (NoFut = never registered)
    fault,      \* the process was terminated (std::terminate or a memory fault)
    resolved,   \* history: wakeup has run on the future
    ops,        \* calls made on the futures so far
    ev          \* history: the last operation and the state it found

futVars == <<state, owner, life, has, results, task, target, runs, detached, isdet,
             resumed, seen, awaits, fault, resolved, ops, ev>>

NoEvent == [op |-> "none", fut |-> NoFut, exc |-> FALSE, trapped |-> FALSE]

\* the future part at rest (used by the specifications of the other parts)
FutureIdle ==
    /\ state = [f \in FutIds |-> "no_value"]
    /\ owner = [f \in FutIds |-> NoOne]
    /\ life = [f \in FutIds |-> "none"]
    /\ has = [f \in FutIds |-> FALSE]
    /\ results = [f \in FutIds |-> 0]
    /\ task = "none"
    /\ target = NoFut
    /\ runs = 0
    /\ detached = 0
    /\ isdet = "none"
    /\ resumed = [c \in Consumers |-> 0]
    /\ seen = [c \in Consumers |-> "none"]
    /\ awaits = [c \in Consumers |-> NoFut]
    /\ fault = FALSE
    /\ resolved = [f \in FutIds |-> FALSE]
    /\ ops = 0
    /\ ev = NoEvent

(***************************************************************************)
(* State of part III: multi_lock<n> over coro_mutex (src/coro_mutex.h).    *)
(* The handlers of this part run on one thread, each one to completion.    *)
(***************************************************************************)
NMtx == 2
NML == 2
NLock == 2
MaxExt == 2

Mtx == 1..NMtx
MLs == 1..NML

VARIABLES
    mxLocked,   \* per mutex: _requests != nullptr (the mutex is owned)
    mxRequests, \* per mutex: the stack _requests above the doorman, newest first (multi_lock ids)
    mxQueue,    \* per mutex: the list _queue, next to be granted first
    ext,        \* per mutex: an ownership obtained by try_lock() outside any multi_lock is alive
    extN,       \* number of such try_lock() calls that succeeded
    locking,    \* per multi_lock: locking[n], Null for an unused entry
    owns,       \* per multi_lock: owns[n], TRUE when the ownership owns its mutex
    first,      \* per multi_lock: first (0-based)
    mlFuture,   \* per multi_lock: the awaitable<void> of lock(): "none", "pending", "ready"
    mlFault,    \* a handler did not return (unbounded recursion) or dereferenced nullptr
    mlFailed    \* per multi_lock, history: idx of the entry whose try_lock failed in the last
                \* round of lock_others (NoIdx = no round has failed)

multiVars == <<mxLocked, mxRequests, mxQueue, ext, extN, locking, owns, first, mlFuture, mlFault,
               mlFailed>>

NoIdx == 0 - 1

\* locking[] as the user may fill it: locking[0] is dereferenced unconditionally
Lists == {l \in [1..NLock -> Mtx \cup {Null}] :
            /\ l[1] # Null
            /\ \A a, b \in 1..NLock : (a # b /\ l[a] # Null) => l[a] # l[b]}

\* the multi_lock part at rest (used by the specifications of the other parts)
MultiIdle ==
    /\ mxLocked = [m \in Mtx |-> FALSE]
    /\ mxRequests = [m \in Mtx |-> <<>>]
    /\ mxQueue = [m \in Mtx |-> <<>>]
    /\ ext = [m \in Mtx |-> FALSE]
    /\ extN = 0
    /\ locking = [k \in MLs |-> [a \in 1..NLock |-> a]]
    /\ owns = [k \in MLs |-> [a \in 1..NLock |-> FALSE]]
    /\ first = [k \in MLs |-> 0]
    /\ mlFuture = [k \in MLs |-> "none"]
    /\ mlFault = FALSE
    /\ mlFailed = [k \in MLs |-> NoIdx]

(***************************************************************************)
(* State of part IV: coro_queue (src/coro_queue.h).  Pusher i pushes the   *)
(* value i and owns push slot i; popper j owns pop slot j.  A slot lives   *)
(* in the closure of the future of its operation and dies when that        *)
(* future is resolved.                                                     *)
(***************************************************************************)
Cap == 1
NPush == 3
NPop == 2
MaxClose == 2
MaxClear == 1

Pushers == 1..NPush
Poppers == 1..NPop
NoErr == 0
Err == 1

VARIABLES
    qItems,     \* limited_queue::_items, indexed 0..count-1 (0: no item constructed)
    qFront,     \* limited_queue::_front
    qBack,      \* limited_queue::_back
    popq,       \* _pop_queue: [first, last]
    pushq,      \* _push_queue: [first, last]
    popNext,    \* slot::next of the pop slots
    pushNext,   \* slot::next of the push slots
    closedErr,  \* _closed
    pph,        \* pusher: "idle", "closure" (push() returned the pending future), "link" (the closure
                \* has read _push_queue.last), "parked", "done", "fault"
    plast,      \* pusher: the value of _push_queue.last its closure has read
    cph,        \* popper: "idle", "closure", "push" (the closure found _closed empty), "link",
                \* "parked", "done", "failed" (resolved with _closed), "fault"
    clast,      \* popper: the value of _pop_queue.last its closure has read
    got,        \* popper: the value its future resolved with
    out,        \* the values that left the queue, in the order in which they left
    parkOrder,  \* poppers in the order in which their slots were linked to _pop_queue
    served,     \* parked poppers in the order in which they were resolved with a value
    dropped,    \* values passed to a Result that no longer refers to a future
    nPushed,    \* number of push() calls issued
    nPopped,    \* number of pop() calls issued
    nClose,     \* number of set_closed() calls issued
    nClear,     \* number of clear() calls issued
    qFault,     \* the process faulted
    bare,       \* history: the members of the queue that were read or written without _mx
    woke        \* history: the frames resumed through a prepared handle of push or pop, each
                \* with whether _mx was held at that moment

queueVars == <<qItems, qFront, qBack, popq, pushq, popNext, pushNext, closedErr, pph, plast, cph,
               clast, got, out, parkOrder, served, dropped, nPushed, nPopped, nClose, nClear, qFault,
               bare, woke>>

\* the queue part at rest (used by the specifications of the other parts)
QueueIdle ==
    /\ qItems = [x \in 0..(Cap - 1) |-> 0]
    /\ qFront = 0
    /\ qBack = 0
    /\ popq = [first |-> Null, last |-> Null]
    /\ pushq = [first |-> Null, last |-> Null]
    /\ popNext = [j \in Poppers |-> Null]
    /\ pushNext = [i \in Pushers |-> Null]
    /\ closedErr = NoErr
    /\ pph = [i \in Pushers |-> "idle"]
    /\ plast = [i \in Pushers |-> Null]
    /\ cph = [j \in Poppers |-> "idle"]
    /\ clast = [j \in Poppers |-> Null]
    /\ got = [j \in Poppers |-> 0]
    /\ out = <<>>
    /\ parkOrder = <<>>
    /\ served = <<>>
    /\ dropped = {}
    /\ nPushed = 0
    /\ nPopped = 0
    /\ nClose = 0
    /\ nClear = 0
    /\ qFault = FALSE
    /\ bare = {}
    /\ woke = {}

(***************************************************************************)
(* State of part V: distributor (src/coro_distributor.h).  Identity f is   *)
(* the address of the flag number f; a subscription is made with an        *)
(* identity alone or, alert-aware, with the flag itself.                   *)
(***************************************************************************)
NSub == 3
NIds == 2
MaxBcast == 2
MaxDOps == 6

Subs == 1..NSub
Ids == 1..NIds

VARIABLES
    d_results,    \* distributor::_results: awaiting_info {r, i}; r is the Result of subscriber s and
                \* aw tells that the entry was made by the alert-aware operator()
    flag,       \* the std::atomic<bool> alert flags
    sub,        \* subscriber: "idle", "waiting", or how its last co_await ended: "value",
                \* "empty", "error"
    recv,       \* subscriber: the values it has received, in order
    nb,         \* number of broadcasts issued; broadcast number n sends the value n
    dops,       \* number of operations issued
    dret        \* the subscriber of the prepared handle returned by the last kick_out / alert (0: empty)

distVars == <<d_results, flag, sub, recv, nb, dops, dret>>

\* the distributor part at rest (used by the specifications of the other parts)
DistIdle ==
    /\ d_results = <<>>
    /\ flag = [f \in Ids |-> FALSE]
    /\ sub = [x \in Subs |-> "idle"]
    /\ recv = [x \in Subs |-> <<>>]
    /\ nb = 0
    /\ dops = 0
    /\ dret = 0

(***************************************************************************)
(* State of part VI: scheduler (src/coro_scheduler.h).  Time points are    *)
(* milliseconds of the system clock.  A plain sleep has the null identity, *)
(* an alertable sleep of sleeper s has the address of the alert flag       *)
(* number s as identity.                                                   *)
(***************************************************************************)
NFlags == 1
MaxCancel == 1
MaxAlert == 1
MaxTick == 1
NLive == 3

\* the durations the sleepers of tests/scheduler.cpp sleep for, by identifier
ms == <<1000, 500, 1500, 700, 825, 225>>

Sleepers == 1..Len(ms)
Flags == 1..NFlags
NullIdent == 0
NoTime == -1

VARIABLES
    heap,       \* generic_scheduler::_heap: HeapItem {timestamp, res, ident}; res is the sleeper
                \* whose result object the item holds
    now,        \* std::chrono::system_clock::now()
    aflag,      \* the alert flags
    sl,         \* sleeper: "idle", "sleeping", "fired" (resolved by the executor), "canceled",
                \* "refused" (alertable sleep with the flag set)
    tp,         \* sleeper: the time point its sleep was scheduled for (NoTime: none)
    dpc,        \* the thread in run_thread: "top" (at the loop test), "body" (the test found no
                \* stop request; holds _mx), "wait" (in _cv.wait / wait_until, _mx released),
                \* "exec" (_mx released, about to call executor), "done" (run_thread returned)
    stopReq,    \* stop was requested on the stop token of run_thread
    waitTm,     \* the time point of the wait_until the driver is in (NoTime: _cv.wait)
    cur,        \* the HeapItem removed for the executor
    fired,      \* the sleepers handed to the executor, in order
    nCancel,    \* number of cancel calls
    nAlert,     \* number of alert calls
    nTick       \* number of times the clock was seen to advance

schedVars == <<heap, now, aflag, sl, tp, dpc, stopReq, waitTm, cur, fired, nCancel, nAlert, nTick>>

NoItem == [timestamp |-> NoTime, res |-> 0, ident |-> NullIdent]

\* the scheduler part at rest (used by the specifications of the other parts)
SchedIdle ==
    /\ heap = <<>>
    /\ now = 0
    /\ aflag = [f \in Flags |-> FALSE]
    /\ sl = [s \in Sleepers |-> "idle"]
    /\ tp = [s \in Sleepers |-> NoTime]
    /\ dpc = "top"
    /\ stopReq = FALSE
    /\ waitTm = NoTime
    /\ cur = NoItem
    /\ fired = <<>>
    /\ nCancel = 0
    /\ nAlert = 0
    /\ nTick = 0

(***************************************************************************)
(* State of part VII: manual_scheduler (src/coro_scheduler.h), the         *)
(* scheduler with virtual time, over the same generic_scheduler.           *)
(***************************************************************************)
NMs == 4
MaxT == 2
MaxMOps == 6

MSleepers == 1..NMs
Times == 1..MaxT
MIdents == {NullIdent, 1}

VARIABLES
    m_heap,     \* manual_scheduler::_sch._heap
    m_time,     \* manual_scheduler::_current_time
    m_sl,       \* sleeper: "idle", "sleeping", "fired" (resumed by advance_time_until),
                \* "removed" (its result object given out by remove_first), "canceled"
    m_tp,       \* sleeper: the time point of its sleep (NoTime: none)
    m_upd,      \* sleeper: its time point was changed by alert
    m_out,      \* the sleepers in the order in which they left the heap by remove_first
    m_ret,      \* the sleeper of the handle the last advance_time_until returned (0: empty)
    m_ops       \* number of operations issued

manualVars == <<m_heap, m_time, m_sl, m_tp, m_upd, m_out, m_ret, m_ops>>

\* the manual scheduler at rest (used by the specifications of the other parts)
ManualIdle ==
    /\ m_heap = <<>>
    /\ m_time = 0
    /\ m_sl = [s \in MSleepers |-> "idle"]
    /\ m_tp = [s \in MSleepers |-> NoTime]
    /\ m_upd = [s \in MSleepers |-> FALSE]
    /\ m_out = <<>>
    /\ m_ret = 0
    /\ m_ops = 0

(***************************************************************************)
(* State of part VIII: when_all (src/coroutine.h), the join over a set of  *)
(* awaiters through one counting frame.                                    *)
(***************************************************************************)
NAw == 3

Awaiters == 1..NAw

VARIABLES
    a_count,    \* when_all::_cnt.count
    a_r,        \* when_all::_cnt.r: "none", "set" (the Result of the co_await is published),
                \* "used" (r() has been called: the Result is given up)
    a_aw,       \* awaiter: "new", "ready" (complete before it is added), "skipped" (add found
                \* it ready), "pending" (the counting frame is its consumer), "done"
    a_next,     \* the next awaiter to add
    a_pc,       \* the owner: "adding", "start" (start() found something pending),
                \* "published", "suspended", "resumed"
    a_out       \* how many times the awaitable of co_await was resolved

allVars == <<a_count, a_r, a_aw, a_next, a_pc, a_out>>

\* a when_all just constructed (used by the specifications of the other parts)
AllIdle ==
    /\ a_count = 1
    /\ a_r = "none"
    /\ a_aw = [a \in Awaiters |-> "new"]
    /\ a_next = 1
    /\ a_pc = "adding"
    /\ a_out = 0

(***************************************************************************)
(* State of part IX: when_each<count> (src/coroutine.h), the iteration     *)
(* over awaiters in the order of their completion.  Indices are zero-based *)
(* as in the source.                                                       *)
(***************************************************************************)
NEach == 3

EachIdx == 0..(NEach - 1)

VARIABLES
    e_finished, \* when_each::_finished: 0 not complete, 1 not complete and awaited, index + 2
    e_free_slot,\* when_each::_free_slot
    e_nx,       \* when_each::_nx
    e_cnt,      \* when_each::_cnt
    e_r,        \* when_each::_r: "none", "set" (the Result of the pending co_await)
    e_aw,       \* awaiter: "new", "ready" (complete before it is added), "pending" (its slot is
                \* its consumer), "taken" (resumed() has its wridx), "done"
    e_w,        \* awaiter: wridx of its call of resumed()
    e_added,    \* number of awaiters the constructor has added
    e_pc,       \* the owner: "ctor", "idle", "cb" (get_awaitable returned the callback),
                \* "waiting", "end" (get_awaitable returned nullptr)
    e_out,      \* the indices the co_awaits returned, in order
    e_order     \* the awaiters in the order in which their completion entered resumed()

eachVars == <<e_finished, e_free_slot, e_nx, e_cnt, e_r, e_aw, e_w, e_added, e_pc, e_out, e_order>>

\* a when_each whose constructor has not added anything yet
EachIdle ==
    /\ e_finished = [k \in EachIdx |-> 0]
    /\ e_free_slot = 0
    /\ e_nx = 0
    /\ e_cnt = NEach
    /\ e_r = "none"
    /\ e_aw = [i \in EachIdx |-> "new"]
    /\ e_w = [i \in EachIdx |-> 0]
    /\ e_added = 0
    /\ e_pc = "ctor"
    /\ e_out = <<>>
    /\ e_order = <<>>

(***************************************************************************)
(* State of part X: async_generator (src/async_generator.h, the same code  *)
(* in src/generator.h) with the Fibonacci bodies of src/tests/generator.cpp*)
(***************************************************************************)
NSteps == 10
MaxInv == 12

\* what await_resume / has_value gives for a step resolved without a value
Empty == 0

GenModes ==
    [body : {"fibo", "async_fibo"}, inner : {"awaitable", "awaiter"}, drive : {"iterator", "co_await"}]

VARIABLES
    g_mode,     \* the body (fibo, or async_fibo: a co_await before every co_yield), what the
                \* body awaits (an awaitable, or an awaiter of another kind), and the driver
                \* (the iterator of a range-for, which fetches with wait() and stops at the
                \* first step without a value, or co_await of each step)
    g_count,    \* the argument count of the body
    g_frame,    \* the frame: "initial", "yielded", "awaiting", "done", "destroyed"
    g_a,        \* the local a of the body
    g_b,        \* the local b of the body
    g_i,        \* the local i of the body
    g_target,   \* promise_type::_prom._target: 0 (nullptr) or the number of the invocation
    g_n,        \* number of invocations made
    g_state,    \* the awaitable of the last invocation: "none", "pending", "value", "no_value"
    g_owner,    \* its consumer is registered and suspended (or blocked in wait())
    g_seen,     \* what the consumer got from each invocation, in order
    g_fault     \* std::terminate was called

genVars == <<g_mode, g_count, g_frame, g_a, g_b, g_i, g_target, g_n, g_state, g_owner, g_seen,
             g_fault>>

\* a generator just created: the frame is suspended at initial_suspend
GenIdle ==
    /\ g_mode = [body |-> "fibo", inner |-> "awaitable", drive |-> "iterator"]
    /\ g_count = 0
    /\ g_frame = "initial"
    /\ g_a = 1
    /\ g_b = 1
    /\ g_i = 0
    /\ g_target = 0
    /\ g_n = 0
    /\ g_state = "none"
    /\ g_owner = FALSE
    /\ g_seen = <<>>
    /\ g_fault = FALSE

(***************************************************************************)
(* State of part XI: two tasks that switch to each other through a future  *)
(* (src/coroutine.h): a consumer task that awaits a producer task n times, *)
(* and the native call stack of the thread that runs them.                 *)
(***************************************************************************)
MaxIter == 10

NoFrame == "none"

VARIABLES
    p_n,        \* the number of iterations of the consumer's loop
    p_i,        \* iterations completed
    p_stack,    \* frames whose resume() call is active on the native stack, outermost first
    p_cons,     \* consumer frame: "initial", "running", "awaiting", "finished"
    p_prod,     \* producer frame: "none", "running", "suspended", "resumed"
    p_state,    \* awaitable::_state of the future of the current producer
    p_owner     \* awaitable::_owner of the consumer's future ("main") and of the producer's
                \* future ("shared")

pingVars == <<p_n, p_i, p_stack, p_cons, p_prod, p_state, p_owner>>

\* the two tasks before the program has touched them (used by the specifications of the
\* other parts)
PingIdle ==
    /\ p_n = 1
    /\ p_i = 0
    /\ p_stack = <<>>
    /\ p_cons = "initial"
    /\ p_prod = "none"
    /\ p_state = "none"
    /\ p_owner = [f \in {"main", "shared"} |-> NoFrame]

(***************************************************************************)
(* State of part XII: limited_queue (src/coro_queue.h) on its own, with    *)
(* the counters _front and _back kept at their width: unsigned int of      *)
(* RingBits bits.                                                          *)
(***************************************************************************)
RingBits == 3

MaxCount == 3

\* the values of unsigned int
Wrap == 2 ^ RingBits

\* the template parameter count
Counts == 1..MaxCount

\* the items pushed: more values than slots, so the items in the ring differ
RingVals == 1..(MaxCount + 1)

\* a slot that holds no live item
NoVal == 0

VARIABLES
    r_count,    \* the template parameter count of the ring
    r_items,    \* limited_queue::_items: the value in every slot, NoVal for no live item
    r_front,    \* limited_queue::_front
    r_back,     \* limited_queue::_back
    r_next,     \* the value the next push stores
    r_fifo,     \* history: the values pushed and not popped yet, oldest first
    r_faults    \* history: "overwrite" (push constructed over a live item), "dead" (pop read
                \* a slot without a live item), "order" (pop returned another value than the
                \* oldest one)

ringVars == <<r_count, r_items, r_front, r_back, r_next, r_fifo, r_faults>>

\* a ring just constructed (used by the specifications of the other parts)
RingIdle ==
    /\ r_count = 1
    /\ r_items = [k \in 0..0 |-> NoVal]
    /\ r_front = 0
    /\ r_back = 0
    /\ r_next = 1
    /\ r_fifo = <<>>
    /\ r_faults = {}

vars == <<mutexVars, futVars, multiVars, queueVars, distVars, schedVars, manualVars, allVars, eachVars, genVars, pingVars, ringVars>>

\* what the steps of the mutex leave alone
notMutex == <<futVars, multiVars, queueVars, distVars, schedVars, manualVars, allVars, eachVars, genVars, pingVars, ringVars>>

\* what the steps of the future leave alone
notFuture == <<mutexVars, multiVars, queueVars, distVars, schedVars, manualVars, allVars, eachVars, genVars, pingVars, ringVars>>

\* what the steps of multi_lock leave alone
notMulti == <<mutexVars, futVars, queueVars, distVars, schedVars, manualVars, allVars, eachVars, genVars, pingVars, ringVars>>

\* what the steps of the queue leave alone
notQueue == <<mutexVars, futVars, multiVars, distVars, schedVars, manualVars, allVars, eachVars, genVars, pingVars, ringVars>>

\* what the steps of this part leave alone
notDist == <<mutexVars, futVars, multiVars, queueVars, schedVars, manualVars, allVars, eachVars, genVars, pingVars, ringVars>>

\* what the steps of this part leave alone
notSched == <<mutexVars, futVars, multiVars, queueVars, distVars, manualVars, allVars, eachVars, genVars, pingVars, ringVars>>

\* what the steps of this part leave alone
notManual == <<mutexVars, futVars, multiVars, queueVars, distVars, schedVars, allVars, eachVars, genVars, pingVars, ringVars>>

\* what the steps of this part leave alone
notAll == <<mutexVars, futVars, multiVars, queueVars, distVars, schedVars, manualVars, eachVars, genVars, pingVars, ringVars>>

\* what the steps of this part leave alone
notEach == <<mutexVars, futVars, multiVars, queueVars, distVars, schedVars, manualVars, allVars, genVars, pingVars, ringVars>>

\* what the steps of this part leave alone
notGen == <<mutexVars, futVars, multiVars, queueVars, distVars, schedVars, manualVars, allVars, eachVars, pingVars, ringVars>>

\* what the steps of this part leave alone
notPing == <<mutexVars, futVars, multiVars, queueVars, distVars, schedVars, manualVars, allVars, eachVars, genVars, ringVars>>

\* what the steps of this part leave alone
notRing == <<mutexVars, futVars, multiVars, queueVars, distVars, schedVars, manualVars, allVars, eachVars, genVars, pingVars>>

InitMutex == MutexIdle /\ FutureIdle /\ MultiIdle /\ QueueIdle /\ RingIdle /\ PingIdle /\ GenIdle /\ EachIdle /\ AllIdle /\ ManualIdle /\ SchedIdle /\ DistIdle

\* number of ownership objects that own the lock (ownership::owns_lock() true)
RECURSIVE SumHeld(_)
SumHeld(S) == IF S = {} THEN 0
              ELSE LET a == CHOOSE x \in S : TRUE IN held[a] + SumHeld(S \ {a})
Owners == SumHeld(Acquirers)

\* a new lock()/try_lock() call may be issued by acquirer a
CanCall(a) ==
    /\ ~crashed
    /\ pc[a] = "idle" /\ upc[a] = "idle"
    /\ held[a] = 0 /\ ~waiting[a]
    /\ calls < MaxCalls
    /\ a <= started + 1

\* the slots of the list that starts at p, up to the doorman or the end
RECURSIVE Chain(_, _, _)
Chain(p, to, fuel) ==
    IF p \in Slots /\ p # to /\ fuel > 0 THEN {p} \cup Chain(next[p], to, fuel - 1) ELSE {}

\* history of a drain: the slots captured by one _requests.exchange
Captured(S) ==
    /\ drainCnt' = IF S = {} THEN drainCnt ELSE drainCnt + 1
    /\ drainNo' = [s \in Slots |-> IF s \in S THEN drainCnt + 1 ELSE drainNo[s]]

\* coro_mutex::resume_slot(s): fulfils the slot's Result with ownership(this)
resume_slot(s) ==
    /\ held' = [held EXCEPT ![s] = @ + 1]
    /\ waiting' = [waiting EXCEPT ![s] = FALSE]
    /\ grantCnt' = grantCnt + 1
    /\ grantNo' = [grantNo EXCEPT ![s] = grantCnt + 1]

\* coro_mutex::try_lock(): _requests.compare_exchange_strong(nullptr, doorman);
\* on success the caller receives an ownership that owns the lock
\* try_lock whose exchange does not compare with nullptr
try_lock_unconditional(a) ==
    /\ requests \in {Null, Doorman}
    /\ requests' = Doorman
    /\ held' = [held EXCEPT ![a] = 1]

try_lock(a) ==
    /\ requests = Null
    /\ requests' = Doorman
    /\ held' = [held EXCEPT ![a] = 1]

\* coro_mutex::lock(): try_lock; on failure an awaitable holding the closure
\* with a fresh slot.  The closure runs when the awaitable is awaited
\* (s._resume = r.release(), add_request(&s) starts) or when it is dropped
\* unawaited (empty Result: nothing is requested).  A bare try_lock() call is
\* the first case or fails; a failed try_lock() and a dropped awaitable leave
\* the mutex as it is.
lock(a) ==
    /\ CanCall(a)
    /\ calls' = calls + 1
    /\ started' = IF a > started THEN a ELSE started
    /\ \/ /\ try_lock(a)
          /\ UNCHANGED <<pc, next, waiting, pushNo, drainNo, grantNo>>
       \/ /\ ~ENABLED try_lock(a)
          /\ pc' = [pc EXCEPT ![a] = "cas"]
          /\ waiting' = [waiting EXCEPT ![a] = TRUE]
          /\ next' = [next EXCEPT ![a] = Null]
          /\ pushNo' = [pushNo EXCEPT ![a] = 0]
          /\ drainNo' = [drainNo EXCEPT ![a] = 0]
          /\ grantNo' = [grantNo EXCEPT ![a] = 0]
          /\ UNCHANGED <<requests, held>>
    /\ UNCHANGED <<queue, from, fromN, upc, ufrom, ufromN, uf, crashed, pushCnt, drainCnt, grantCnt>>
    /\ UNCHANGED notMutex

\* add_request: one round of  while (!_requests.compare_exchange_strong(s->_next, s));
add_request_cas(a) ==
    /\ ~crashed
    /\ pc[a] = "cas"
    /\ IF requests = next[a]
       THEN /\ requests' = a
            /\ pc' = [pc EXCEPT ![a] = "check"]
            /\ pushCnt' = pushCnt + 1
            /\ pushNo' = [pushNo EXCEPT ![a] = pushCnt + 1]
            /\ UNCHANGED next
       ELSE /\ next' = [next EXCEPT ![a] = requests]
            /\ UNCHANGED <<requests, pc, pushCnt, pushNo>>
    /\ UNCHANGED <<queue, from, fromN, upc, ufrom, ufromN, uf, held, waiting, calls, started, crashed,
                   drainNo, grantNo, drainCnt, grantCnt>>
    /\ UNCHANGED notMutex

\* add_request: if (s->_next == nullptr), a plain read of the published slot
add_request_check(a) ==
    /\ ~crashed
    /\ pc[a] = "check"
    /\ pc' = [pc EXCEPT ![a] = IF next[a] = Null THEN "xchg" ELSE "idle"]
    /\ UNCHANGED <<requests, queue, next, from, fromN, upc, ufrom, ufromN, uf, held, waiting,
                   calls, started, crashed, pushNo, drainNo, grantNo, pushCnt, drainCnt, grantCnt>>
    /\ UNCHANGED notMutex

\* add_request: _requests.exchange(get_doorman())
add_request_exchange(a) ==
    /\ ~crashed
    /\ pc[a] = "xchg"
    /\ from' = [from EXCEPT ![a] = requests]
    /\ requests' = Doorman
    /\ pc' = [pc EXCEPT ![a] = "walk"]
    /\ Captured(Chain(requests, a, NAcq))
    /\ UNCHANGED <<queue, next, fromN, upc, ufrom, ufromN, uf, held, waiting, calls, started, crashed,
                   pushNo, grantNo, pushCnt, grantCnt>>
    /\ UNCHANGED notMutex

\* add_request: make_queue(<exchanged>, s), the loop test and the first half of
\* a round:  auto n = from->_next; from->_next = _queue;
\* A walk that has left the list writes the const doorman or dereferences
\* nullptr.
add_request_walk(a) ==
    /\ ~crashed
    /\ pc[a] = "walk"
    /\ IF from[a] = a
       THEN /\ pc' = [pc EXCEPT ![a] = "resume"]
            /\ UNCHANGED <<next, fromN, crashed>>
       ELSE IF from[a] \in Slots
            THEN /\ fromN' = [fromN EXCEPT ![a] = next[from[a]]]
                 /\ next' = [next EXCEPT ![from[a]] = queue]
                 /\ pc' = [pc EXCEPT ![a] = "link"]
                 /\ UNCHANGED crashed
            ELSE /\ crashed' = TRUE
                 /\ UNCHANGED <<next, fromN, pc>>
    /\ UNCHANGED <<requests, queue, from, upc, ufrom, ufromN, uf, held, waiting, calls, started,
                   pushNo, drainNo, grantNo, pushCnt, drainCnt, grantCnt>>
    /\ UNCHANGED notMutex

\* add_request: make_queue, the second half of a round:  _queue = from; from = n;
add_request_link(a) ==
    /\ ~crashed
    /\ pc[a] = "link"
    /\ queue' = from[a]
    /\ from' = [from EXCEPT ![a] = fromN[a]]
    /\ pc' = [pc EXCEPT ![a] = "walk"]
    /\ UNCHANGED <<requests, next, fromN, upc, ufrom, ufromN, uf, held, waiting, calls, started, crashed,
                   pushNo, drainNo, grantNo, pushCnt, drainCnt, grantCnt>>
    /\ UNCHANGED notMutex

\* add_request: return resume_slot(s)
add_request_resume(a) ==
    /\ ~crashed
    /\ pc[a] = "resume"
    /\ resume_slot(a)
    /\ pc' = [pc EXCEPT ![a] = "idle"]
    /\ UNCHANGED <<requests, queue, next, from, fromN, upc, ufrom, ufromN, uf, calls, started, crashed,
                   pushNo, drainNo, pushCnt, drainCnt>>
    /\ UNCHANGED notMutex

\* ownership::release(): _owning is cleared and unlock() starts with  if (!_queue)
release(a) ==
    /\ ~crashed
    /\ upc[a] = "idle"
    /\ held[a] > 0
    /\ held' = [held EXCEPT ![a] = @ - 1]
    /\ upc' = [upc EXCEPT ![a] = IF queue # Null THEN "pop" ELSE "cas"]
    /\ UNCHANGED <<requests, queue, next, pc, from, fromN, ufrom, ufromN, uf, waiting, calls, started,
                   crashed, pushNo, drainNo, grantNo, pushCnt, drainCnt, grantCnt>>
    /\ UNCHANGED notMutex

\* unlock: _requests.compare_exchange_strong(need = doorman, nullptr)
unlock_cas(a) ==
    /\ ~crashed
    /\ upc[a] = "cas"
    /\ IF requests = Doorman
       THEN /\ requests' = Null
            /\ upc' = [upc EXCEPT ![a] = "idle"]
       ELSE /\ upc' = [upc EXCEPT ![a] = "xchg"]
            /\ UNCHANGED requests
    /\ UNCHANGED <<queue, next, pc, from, fromN, ufrom, ufromN, uf, held, waiting, calls, started,
                   crashed, pushNo, drainNo, grantNo, pushCnt, drainCnt, grantCnt>>
    /\ UNCHANGED notMutex

\* unlock: _requests.exchange(d)
unlock_exchange(a) ==
    /\ ~crashed
    /\ upc[a] = "xchg"
    /\ ufrom' = [ufrom EXCEPT ![a] = requests]
    /\ requests' = Doorman
    /\ upc' = [upc EXCEPT ![a] = "walk"]
    /\ Captured(Chain(requests, Doorman, NAcq))
    /\ UNCHANGED <<queue, next, pc, from, fromN, ufromN, uf, held, waiting, calls, started, crashed,
                   pushNo, grantNo, pushCnt, grantCnt>>
    /\ UNCHANGED notMutex

\* unlock: make_queue(<exchanged>, d), the loop test and the first half of a round
unlock_walk(a) ==
    /\ ~crashed
    /\ upc[a] = "walk"
    /\ IF ufrom[a] = Doorman
       THEN /\ upc' = [upc EXCEPT ![a] = "pop"]
            /\ UNCHANGED <<next, ufromN, crashed>>
       ELSE IF ufrom[a] \in Slots
            THEN /\ ufromN' = [ufromN EXCEPT ![a] = next[ufrom[a]]]
                 /\ next' = [next EXCEPT ![ufrom[a]] = queue]
                 /\ upc' = [upc EXCEPT ![a] = "link"]
                 /\ UNCHANGED crashed
            ELSE /\ crashed' = TRUE
                 /\ UNCHANGED <<next, ufromN, upc>>
    /\ UNCHANGED <<requests, queue, pc, from, fromN, ufrom, uf, held, waiting, calls, started,
                   pushNo, drainNo, grantNo, pushCnt, drainCnt, grantCnt>>
    /\ UNCHANGED notMutex

\* unlock: make_queue, the second half of a round:  _queue = from; from = n;
unlock_link(a) ==
    /\ ~crashed
    /\ upc[a] = "link"
    /\ queue' = ufrom[a]
    /\ ufrom' = [ufrom EXCEPT ![a] = ufromN[a]]
    /\ upc' = [upc EXCEPT ![a] = "walk"]
    /\ UNCHANGED <<requests, next, pc, from, fromN, ufromN, uf, held, waiting, calls, started, crashed,
                   pushNo, drainNo, grantNo, pushCnt, drainCnt, grantCnt>>
    /\ UNCHANGED notMutex

\* unlock: auto f = _queue
unlock_front(a) ==
    /\ ~crashed
    /\ upc[a] = "pop"
    /\ uf' = [uf EXCEPT ![a] = queue]
    /\ upc' = [upc EXCEPT ![a] = "grant"]
    /\ UNCHANGED <<requests, queue, next, pc, from, fromN, ufrom, ufromN, held, waiting, calls, started,
                   crashed, pushNo, drainNo, grantNo, pushCnt, drainCnt, grantCnt>>
    /\ UNCHANGED notMutex

\* unlock: _queue = f->_next; return resume_slot(f).  f is nullptr, or a slot
\* whose closure was destroyed by an earlier grant, only after a make_queue of
\* another thread wrote _queue.  Dereferencing nullptr is a fault; accessing
\* the destroyed slot is a fault, or it reads the bytes left there and
\* fulfils a Result nobody awaits.
unlock_pop(a) ==
    /\ ~crashed
    /\ upc[a] = "grant"
    /\ IF uf[a] \in Slots /\ waiting[uf[a]]
       THEN /\ queue' = next[uf[a]]
            /\ resume_slot(uf[a])
            /\ upc' = [upc EXCEPT ![a] = "idle"]
            /\ UNCHANGED crashed
       ELSE \/ /\ crashed' = TRUE
               /\ UNCHANGED <<queue, held, waiting, grantCnt, grantNo, upc>>
            \/ /\ uf[a] \in Slots
               /\ queue' = next[uf[a]]
               /\ upc' = [upc EXCEPT ![a] = "idle"]
               /\ UNCHANGED <<held, waiting, grantCnt, grantNo, crashed>>
    /\ UNCHANGED <<requests, next, pc, from, fromN, ufrom, ufromN, uf, calls, started,
                   pushNo, drainNo, pushCnt, drainCnt>>
    /\ UNCHANGED notMutex

NextMutex ==
    \/ \E a \in Acquirers : lock(a)
    \/ \E a \in Acquirers : add_request_cas(a)
    \/ \E a \in Acquirers : add_request_check(a)
    \/ \E a \in Acquirers : add_request_exchange(a)
    \/ \E a \in Acquirers : add_request_walk(a)
    \/ \E a \in Acquirers : add_request_link(a)
    \/ \E a \in Acquirers : add_request_resume(a)
    \/ \E a \in Acquirers : release(a)
    \/ \E a \in Acquirers : unlock_cas(a)
    \/ \E a \in Acquirers : unlock_exchange(a)
    \/ \E a \in Acquirers : unlock_walk(a)
    \/ \E a \in Acquirers : unlock_link(a)
    \/ \E a \in Acquirers : unlock_front(a)
    \/ \E a \in Acquirers : unlock_pop(a)

SpecMutex == InitMutex /\ [][NextMutex]_vars

\* threads keep running the call they are in, and every holder eventually releases
FairMutex ==
    /\ \A a \in Acquirers : WF_vars(add_request_cas(a))
    /\ \A a \in Acquirers : WF_vars(add_request_check(a))
    /\ \A a \in Acquirers : WF_vars(add_request_exchange(a))
    /\ \A a \in Acquirers : WF_vars(add_request_walk(a))
    /\ \A a \in Acquirers : WF_vars(add_request_link(a))
    /\ \A a \in Acquirers : WF_vars(add_request_resume(a))
    /\ \A a \in Acquirers : WF_vars(release(a))
    /\ \A a \in Acquirers : WF_vars(unlock_cas(a))
    /\ \A a \in Acquirers : WF_vars(unlock_exchange(a))
    /\ \A a \in Acquirers : WF_vars(unlock_walk(a))
    /\ \A a \in Acquirers : WF_vars(unlock_link(a))
    /\ \A a \in Acquirers : WF_vars(unlock_front(a))
    /\ \A a \in Acquirers : WF_vars(unlock_pop(a))

FairSpecMutex == SpecMutex /\ FairMutex

\* no lock()/add_request or release()/unlock call is in progress
Quiescent == \A a \in Acquirers : pc[a] = "idle" /\ upc[a] = "idle"

\* the slots linked in _queue: captured by a drain and not yet granted
InQueue(s) == waiting[s] /\ drainNo[s] # 0

\* ------------------------------------------------------------------------
\* Claims on coro_mutex
\* ------------------------------------------------------------------------

\* C1: for every interleaving of try_lock, awaited lock() requests and releases,
\* at most one ownership object that owns the lock exists at any time.
C1_MutualExclusion == Owners <= 1

\* C1 witness: an ownership handed over by a release exists while another
\* request is parked on the mutex.
C1_Witness ==
    \E a, b \in Acquirers :
        /\ a # b
        /\ held[a] = 1 /\ grantNo[a] > 0
        /\ waiting[b] /\ pushNo[b] > 0

\* C8: waiters captured by the same drain of the requests stack receive
\* ownership in the order in which they enqueued.
C8_DrainFifo ==
    \A s, t \in Slots :
        (/\ drainNo[s] # 0 /\ drainNo[s] = drainNo[t]
         /\ pushNo[s] < pushNo[t]
         /\ grantNo[t] # 0)
        => (grantNo[s] # 0 /\ grantNo[s] < grantNo[t])

\* C9 (state part): with no call in progress, nobody owning the mutex means the
\* mutex is observably unlocked and no request is parked.
C9_NoLostWakeup ==
    (Quiescent /\ Owners = 0)
        => (requests = Null /\ queue = Null /\ \A a \in Acquirers : ~waiting[a])

\* the step with which a release() call of acquirer a returns: the
\* compare-exchange that resets _requests, or the resume_slot of the queue's head
ReleaseReturns(a) == upc[a] # "idle" /\ upc'[a] = "idle"

\* C9 (step part): a completing release either hands ownership to exactly one
\* waiter, the earliest-enqueued of the queue, or leaves the mutex unlocked.
C9_ReleaseStep ==
    \A a \in Acquirers :
        ReleaseReturns(a) =>
            \/ /\ requests' = Null /\ queue' = Null /\ Owners' = 0
               /\ waiting' = waiting
               /\ \A t \in Slots : held'[t] <= held[t]
            \/ \E s \in Slots :
                  /\ waiting[s] /\ ~waiting'[s]
                  /\ held'[s] = held[s] + 1
                  /\ Owners' = 1
                  /\ \A t \in Slots \ {s} : held'[t] = held[t] /\ waiting'[t] = waiting[t]
                  /\ \A t \in Slots : InQueue(t) => pushNo[s] <= pushNo[t]

\* C9: releasing an ownership either hands it to exactly one waiter (the
\* earliest-enqueued of the drain) or leaves the mutex observably unlocked;
\* once all calls have returned there is no lost wake-up.
C9_Release == []C9_NoLostWakeup /\ [][C9_ReleaseStep]_vars

\* C10: if every holder eventually releases, every awaited lock() request is
\* eventually granted ownership.
C10_NoStarvation == \A a \in Acquirers : waiting[a] ~> ~waiting[a]

\* ------------------------------------------------------------------------
\* Part II : awaitable<T>, awaitable_result<T>, coroutine<T>
\* ------------------------------------------------------------------------
\* future 1 as left by one of the constructors of awaitable
InitFuture ==
    /\ MutexIdle
    /\ MultiIdle
    /\ QueueIdle
    /\ RingIdle
    /\ PingIdle
    /\ GenIdle
    /\ EachIdle
    /\ AllIdle
    /\ ManualIdle
    /\ SchedIdle
    /\ DistIdle
    /\ \E st \in States :
        /\ state = [f \in FutIds |-> IF f = 1 THEN st ELSE "no_value"]
        /\ has = [f \in FutIds |-> f = 1 /\ st \in Pending]
        /\ task = IF st = "coro" THEN "initial" ELSE "none"
    /\ owner = [f \in FutIds |-> NoOne]
    /\ life = [f \in FutIds |-> IF f = 1 THEN "alive" ELSE "none"]
    /\ results = [f \in FutIds |-> 0]
    /\ target = NoFut
    /\ runs = 0
    /\ detached = 0
    /\ isdet = "none"
    /\ resumed = [c \in Consumers |-> 0]
    /\ seen = [c \in Consumers |-> "none"]
    /\ awaits = [c \in Consumers |-> NoFut]
    /\ fault = FALSE
    /\ resolved = [f \in FutIds |-> FALSE]
    /\ ops = 0
    /\ ev = NoEvent

\* ------------------------------------------------------------------------
\* Operations of awaitable, awaitable_result and coroutine as functions on the
\* state w of the future part (a call and everything it calls is one function)
\* ------------------------------------------------------------------------
World == [state |-> state, owner |-> owner, life |-> life, has |-> has,
          results |-> results, task |-> task, target |-> target,
          runs |-> runs, detached |-> detached, isdet |-> isdet,
          resumed |-> resumed, seen |-> seen,
          awaits |-> awaits, fault |-> fault, resolved |-> resolved]

Commit(w) ==
    /\ state' = w.state
    /\ owner' = w.owner
    /\ life' = w.life
    /\ has' = w.has
    /\ results' = w.results
    /\ task' = w.task
    /\ target' = w.target
    /\ runs' = w.runs
    /\ detached' = w.detached
    /\ isdet' = w.isdet
    /\ resumed' = w.resumed
    /\ seen' = w.seen
    /\ awaits' = w.awaits
    /\ fault' = w.fault
    /\ resolved' = w.resolved

\* std::terminate, or an access through a null or dangling pointer
Fault(w) == [w EXCEPT !.fault = TRUE]

\* awaitable::await_ready / is_ready
await_ready(st) == st = "no_value" \/ st = "value" \/ st = "exception"

\* awaitable::await_resume: the value, the stored exception rethrown, or
\* await_canceled_exception for every other state
await_resume(st) ==
    IF st = "value" THEN "value"
    ELSE IF st = "exception" THEN "error"
    ELSE "canceled"

\* coroutine::cancel: a not yet started frame is destroyed without being resumed
\* (its ~promise_type finds no _target)
coroutine_cancel(w, f) ==
    IF w.has[f] THEN [w EXCEPT !.has[f] = FALSE, !.task = "destroyed"] ELSE w

\* awaitable::destroy_state
destroy_state(w, f) ==
    IF w.state[f] = "coro" THEN coroutine_cancel(w, f)
    ELSE IF w.state[f] \in {"callback", "callback_ptr"} THEN [w EXCEPT !.has[f] = FALSE]
    ELSE w

\* awaitable::set_value
set_value(w, f) == [destroy_state(w, f) EXCEPT !.state[f] = "value"]

\* awaitable::set_exception
set_exception(w, f) == [destroy_state(w, f) EXCEPT !.state[f] = "exception"]

\* awaitable::drop
drop(w, f) == [destroy_state(w, f) EXCEPT !.state[f] = "no_value"]

\* what a consumer finds when it runs again: the outcome of await_resume, or
\* "pending" when the future is not resolved
Observed(st) == IF await_ready(st) THEN await_resume(st) ELSE "pending"

\* a consumer runs again: a coroutine (or the thread blocked in wait()) continues
\* with await_resume; the awaiting_callback frame calls _cb(_awt) and deletes
\* itself, which ends the life of its resolved, owner-less awaitable
resume(w, c, f) ==
    IF c = NoOne THEN w
    ELSE LET w1 == [w EXCEPT !.resumed[c] = @ + 1, !.seen[c] = Observed(w.state[f])]
         IN  IF c = Cb THEN [w1 EXCEPT !.life[f] = "dead"] ELSE w1

\* a wakeup that does not drop an unresolved future
wakeup_no_drop(w, f) ==
    resume([w EXCEPT !.owner[f] = NoOne, !.resolved[f] = TRUE], w.owner[f], f)

\* awaitable::wakeup, followed by the resumption of the prepared_coro it returns
wakeup(w, f) ==
    LET w1 == IF await_ready(w.state[f]) THEN w ELSE drop(w, f)
        w2 == [w1 EXCEPT !.owner[f] = NoOne, !.resolved[f] = TRUE]
    IN  resume(w2, w1.owner[f], f)

\* awaitable_result::operator()/operator= with a value: the Result gives up its
\* pointer, stores the value and wakes the consumer
result_value(w, f) ==
    IF w.life[f] # "alive" THEN Fault(w) ELSE wakeup(set_value(w, f), f)

\* awaitable_result::operator=(std::exception_ptr) / set_exception
result_exception(w, f) ==
    IF w.life[f] # "alive" THEN Fault(w) ELSE wakeup(set_exception(w, f), f)

\* a deleter that resolves the future and wakes nobody
deleter_silent(w, f, e) ==
    IF w.life[f] # "alive" THEN Fault(w)
    ELSE IF e THEN set_exception(w, f) ELSE drop(w, f)

\* awaitable_result::deleter: a Result destroyed while still bound; e = there is
\* a current exception (std::current_exception() is not null)
deleter(w, f, e) ==
    IF w.life[f] # "alive" THEN Fault(w)
    ELSE wakeup(IF e THEN set_exception(w, f) ELSE drop(w, f), f)

\* the call of a closure producer with a Result bound to g (NoFut: the empty
\* Result of the detached mode); o = what the closure does with the Result
closure_call(w, g, o) ==
    LET w1 == [w EXCEPT !.runs = @ + 1] IN
    IF g = NoFut THEN [w1 EXCEPT !.detached = @ + 1]
    ELSE IF o = "value" THEN result_value(w1, g)
    ELSE IF o = "error" THEN result_exception(w1, g)
    ELSE IF o = "drop" THEN deleter(w1, g, FALSE)
    ELSE IF o = "drop_exc" THEN deleter(w1, g, TRUE)
    ELSE [w1 EXCEPT !.results[g] = @ + 1]

\* mutated promise: the target is left alone
promise_no_wakeup(w) == w

\* promise_type_base::wakeup
promise_wakeup(w) ==
    IF w.target = NoFut THEN w
    ELSE IF w.life[w.target] # "alive" THEN Fault(w)
    ELSE wakeup(w, w.target)

\* final_suspend: finisher::await_ready/await_suspend: p = wakeup() takes the consumer's
\* handle, h.destroy() destroys the frame (~promise_type calls wakeup once more, which finds
\* the future resolved and without owner), and only then p is resumed
finisher(w) ==
    IF w.target = NoFut THEN [w EXCEPT !.task = "finished"]
    ELSE IF w.life[w.target] # "alive" THEN Fault(w)
    ELSE LET f == w.target
             w1 == IF await_ready(w.state[f]) THEN w ELSE drop(w, f)
             w2 == [w1 EXCEPT !.owner[f] = NoOne, !.resolved[f] = TRUE, !.task = "finished"]
         IN  resume(w2, w1.owner[f], f)

\* promise_type::is_detached
is_detached_never(w) == FALSE

is_detached(w) == w.target = NoFut

\* detached_test_awaitable::await_suspend (await_ready is that of suspend_always): stores
\* is_detached() of the promise in _detached and returns false, so the frame is not suspended
detached_test_awaitable(w) == [suspend |-> FALSE, _detached |-> is_detached(w)]

\* the body of the task runs from a resumption to its next suspension point; the body asks
\* co_await is_detached() when it starts running, as detach_test_coro does;
\* co_return (return_value), an escaping exception (unhandled_exception) or a
\* co_await that suspends
task_body(w0, o) ==
    LET t == detached_test_awaitable(w0)
        \* await_resume returns _detached
        w == [w0 EXCEPT !.isdet = IF t._detached THEN "yes" ELSE "no"]
    IN  IF t.suspend THEN [w0 EXCEPT !.task = "suspended"]
        ELSE IF o = "suspend" THEN [w EXCEPT !.task = "suspended"]
        ELSE IF w.target = NoFut
             THEN IF o = "throw" THEN Fault(w) ELSE finisher(w)
        ELSE IF w.life[w.target] # "alive" THEN Fault(w)
        ELSE IF o = "return" THEN finisher(set_value(w, w.target))
        ELSE finisher(set_exception(w, w.target))

\* coroutine::start(res) on the task held by future f, res bound to future g;
\* an empty coroutine returns an empty prepared_coro and leaves res alone
start(w, f, g, o) ==
    IF ~w.has[f] THEN w
    ELSE task_body([w EXCEPT !.has[f] = FALSE, !.target = g, !.runs = @ + 1], o)

\* coroutine::~coroutine: a task that was not started runs detached
coroutine_dtor(w, f, o) ==
    IF ~w.has[f] THEN w
    ELSE task_body([w EXCEPT !.has[f] = FALSE, !.runs = @ + 1, !.detached = @ + 1], o)

\* awaitable::cancel: throws invalid_state when a consumer is registered
cancel(w, f) ==
    IF w.owner[f] # NoOne THEN w
    ELSE [destroy_state(w, f) EXCEPT !.state[f] = "no_value"]

\* awaitable::create_result: throws invalid_state when a consumer is registered
create_result(w, f, c) ==
    IF w.owner[f] # NoOne THEN w
    ELSE [w EXCEPT !.owner[f] = c, !.awaits[c] = f, !.results[f] = @ + 1,
                   !.resolved[f] = FALSE]

\* a destructor that cancels a task that was not started instead of resuming it
dtor_cancel(w, f, o) ==
    IF w.owner[f] # NoOne THEN Fault(w)
    ELSE LET st == w.state[f]
             w1 == IF st = "coro" THEN coroutine_cancel(w, f)
                   ELSE IF st = "callback"
                        THEN [closure_call(w, NoFut, o) EXCEPT !.has[f] = FALSE]
                   ELSE IF st = "callback_ptr"
                        THEN IF w.has[f]
                             THEN [closure_call(w, NoFut, o) EXCEPT !.has[f] = FALSE]
                             ELSE Fault(w)
                   ELSE w
         IN  [w1 EXCEPT !.life[f] = "dead"]

\* a destructor that destroys the closure without calling it
dtor_discard(w, f, o) ==
    IF w.owner[f] # NoOne THEN Fault(w)
    ELSE LET st == w.state[f]
             w1 == IF st = "coro" THEN coroutine_dtor(w, f, o)
                   ELSE IF st \in {"callback", "callback_ptr"}
                        THEN [w EXCEPT !.has[f] = FALSE]
                   ELSE w
         IN  [w1 EXCEPT !.life[f] = "dead"]

\* awaitable::~awaitable -> dtor: invalid_state thrown from the destructor ends
\* the process; a task that was not started is resumed detached, a closure is
\* called with an empty Result and then destroyed
dtor(w, f, o) ==
    IF w.owner[f] # NoOne THEN Fault(w)
    ELSE LET st == w.state[f]
             w1 == IF st = "coro" THEN coroutine_dtor(w, f, o)
                   ELSE IF st = "callback"
                        THEN [closure_call(w, NoFut, o) EXCEPT !.has[f] = FALSE]
                   ELSE IF st = "callback_ptr"
                        THEN IF w.has[f]
                             THEN [closure_call(w, NoFut, o) EXCEPT !.has[f] = FALSE]
                             ELSE Fault(w)
                   ELSE w
         IN  [w1 EXCEPT !.life[f] = "dead"]

\* awaitable::awaitable(awaitable &&other): g is constructed from f; f is left
\* without producer in state no_value; _owner is not moved
move_construct(w, f, g) ==
    [w EXCEPT !.life[g] = "alive", !.state[g] = w.state[f], !.has[g] = w.has[f],
              !.owner[g] = NoOne,
              !.state[f] = "no_value", !.has[f] = FALSE]

\* awaitable::await_suspend(h) for consumer c
await_suspend(w, f, c, o) ==
    LET w0 == [w EXCEPT !.owner[f] = c, !.awaits[c] = f]
        st == w.state[f]
    IN  IF st = "coro"
        THEN IF w.has[f] THEN start(w0, f, f, o) ELSE deleter(w0, f, FALSE)
        ELSE IF st = "callback" THEN closure_call(w0, f, o)
        ELSE IF st = "callback_ptr"
             THEN IF w.has[f] THEN closure_call([w0 EXCEPT !.has[f] = FALSE], f, o)
                  ELSE Fault(w0)
        ELSE resume(w0, c, f)

\* awaitable::get_temp_state(result)
get_temp_state(w, f) ==
    IF w.state[f] # "no_value"
    THEN [destroy_state(w, f) EXCEPT !.state[f] = "no_value"]
    ELSE w

\* awaitable::set_callback_internal with the awaiting_callback frame built on
\* future g; the Result of the frame's awaitable is handed to the producer, then
\* the future is cancelled; a Result that start() did not take is dropped when
\* the function is left
set_callback_internal(w, f, g, o) ==
    IF await_ready(w.state[f])
    THEN [w EXCEPT !.resumed[Cb] = @ + 1, !.seen[Cb] = Observed(w.state[f]),
                   !.awaits[Cb] = f]
    ELSE LET st == w.state[f]
             w0 == [w EXCEPT !.life[g] = "alive", !.state[g] = "no_value",
                             !.has[g] = FALSE, !.owner[g] = Cb, !.awaits[Cb] = g]
             w1 == IF st = "callback" THEN closure_call(w0, g, o)
                   ELSE IF st = "callback_ptr"
                        THEN IF w.has[f] THEN closure_call(w0, g, o) ELSE Fault(w0)
                   ELSE start(w0, f, g, o)
             w2 == cancel(w1, f)
         IN  IF st = "coro" /\ ~w.has[f] THEN deleter(w2, g, FALSE) ELSE w2

\* ------------------------------------------------------------------------
\* Steps of the future part: one per call made by the program
\* ------------------------------------------------------------------------
Event(op, f, e, t) == [op |-> op, fut |-> f, exc |-> e, trapped |-> t]

\* a future the program can name: alive and not the awaitable inside the
\* awaiting_callback frame
UserFuture(f) == life[f] = "alive" /\ owner[f] # Cb

\* the program may make one more call on a future
CanOp == ~fault /\ ops < MaxOps

\* coroutine consumers are interchangeable: they register in the order of their
\* numbers
NextCoro(c) == \A d \in Coros : d < c => awaits[d] # NoFut

\* the next future to be constructed
FreeFut == {g \in FutIds : life[g] = "none"}
NewFut == CHOOSE g \in FreeFut : \A h \in FreeFut : g <= h

\* co_await f by coroutine c (or f.wait() by a thread): await_ready is false,
\* await_suspend(h) runs
CoAwait(f, c) ==
    /\ CanOp
    /\ ops' = ops + 1
    /\ UserFuture(f)
    /\ ~await_ready(state[f])
    /\ awaits[c] = NoFut
    /\ NextCoro(c)
    /\ \E o \in OutcomesFor(state[f]) : Commit(await_suspend(World, f, c, o))
    /\ ev' = Event("co_await", f, FALSE, FALSE)
    /\ UNCHANGED notFuture

\* f.set_callback(cb)
SetCallback(f) ==
    /\ CanOp
    /\ ops' = ops + 1
    /\ UserFuture(f)
    /\ awaits[Cb] = NoFut
    /\ await_ready(state[f]) \/ FreeFut # {}
    /\ \E o \in OutcomesFor(state[f]) : Commit(set_callback_internal(World, f, NewFut, o))
    /\ ev' = Event("set_callback", f, FALSE, ~await_ready(state[f]) /\ owner[f] # NoOne)
    /\ UNCHANGED notFuture

\* f.create_result(h) for the handle of coroutine c
CreateResult(f, c) ==
    /\ CanOp
    /\ ops' = ops + 1
    /\ UserFuture(f)
    /\ awaits[c] = NoFut
    /\ NextCoro(c)
    /\ Commit(create_result(World, f, c))
    /\ ev' = Event("create_result", f, FALSE, owner[f] # NoOne)
    /\ UNCHANGED notFuture

\* f.cancel()
Cancel(f) ==
    /\ CanOp
    /\ ops' = ops + 1
    /\ UserFuture(f)
    /\ Commit(cancel(World, f))
    /\ ev' = Event("cancel", f, FALSE, owner[f] # NoOne)
    /\ UNCHANGED notFuture

\* awaitable g(std::move(f))
MoveConstruct(f) ==
    /\ CanOp
    /\ ops' = ops + 1
    /\ UserFuture(f)
    /\ FreeFut # {}
    /\ Commit(move_construct(World, f, NewFut))
    /\ ev' = Event("move", f, FALSE, FALSE)
    /\ UNCHANGED notFuture

\* the future goes out of scope: ~awaitable
Destroy(f) ==
    /\ CanOp
    /\ ops' = ops + 1
    /\ UserFuture(f)
    /\ \E o \in OutcomesFor(state[f]) : Commit(dtor(World, f, o))
    /\ ev' = Event("destroy", f, FALSE, FALSE)
    /\ UNCHANGED notFuture

\* a Result kept by the producer is fulfilled with a value
ResultValue(f) ==
    /\ ~fault
    /\ UNCHANGED ops
    /\ results[f] > 0
    /\ Commit(result_value([World EXCEPT !.results[f] = @ - 1], f))
    /\ ev' = NoEvent
    /\ UNCHANGED notFuture

\* a Result kept by the producer is fulfilled with an exception
ResultException(f) ==
    /\ ~fault
    /\ UNCHANGED ops
    /\ results[f] > 0
    /\ Commit(result_exception([World EXCEPT !.results[f] = @ - 1], f))
    /\ ev' = NoEvent
    /\ UNCHANGED notFuture

\* a Result kept by the producer is destroyed without being fulfilled
ResultDrop(f, e) ==
    /\ ~fault
    /\ UNCHANGED ops
    /\ results[f] > 0
    /\ Commit(deleter([World EXCEPT !.results[f] = @ - 1], f, e))
    /\ ev' = Event("drop", f, e, FALSE)
    /\ UNCHANGED notFuture

\* awaitable::get_temp_state(r) on a Result kept by the producer
GetTempState(f) ==
    /\ ~fault
    /\ UNCHANGED ops
    /\ results[f] > 0
    /\ IF life[f] = "alive" THEN Commit(get_temp_state(World, f))
                            ELSE Commit(Fault(World))
    /\ ev' = NoEvent
    /\ UNCHANGED notFuture

\* the suspended task is resumed and runs to co_return or to an exception
TaskResume(o) ==
    /\ ~fault
    /\ UNCHANGED ops
    /\ task = "suspended"
    /\ o # "suspend"
    /\ Commit(task_body(World, o))
    /\ ev' = NoEvent
    /\ UNCHANGED notFuture

\* the frame of the suspended task is destroyed: ~promise_type calls wakeup
TaskDestroy ==
    /\ ~fault
    /\ UNCHANGED ops
    /\ task = "suspended"
    /\ Commit(promise_wakeup([World EXCEPT !.task = "destroyed"]))
    /\ ev' = NoEvent
    /\ UNCHANGED notFuture

NextFuture ==
    \/ \E f \in FutIds, c \in Coros : CoAwait(f, c)
    \/ \E f \in FutIds : SetCallback(f)
    \/ \E f \in FutIds, c \in Coros : CreateResult(f, c)
    \/ \E f \in FutIds : Cancel(f)
    \/ \E f \in FutIds : MoveConstruct(f)
    \/ \E f \in FutIds : Destroy(f)
    \/ \E f \in FutIds : ResultValue(f)
    \/ \E f \in FutIds : ResultException(f)
    \/ \E f \in FutIds, e \in BOOLEAN : ResultDrop(f, e)
    \/ \E f \in FutIds : GetTempState(f)
    \/ \E o \in TaskOutcomes : TaskResume(o)
    \/ TaskDestroy

SpecFuture == InitFuture /\ [][NextFuture]_vars

\* ------------------------------------------------------------------------
\* Claims on awaitable / awaitable_result / coroutine
\* ------------------------------------------------------------------------

\* the Result of future f is outstanding: an awaitable_result is bound to it or
\* the started task holds it as its _target
Outstanding(f) == results[f] > 0 \/ (target = f /\ task = "suspended")

\* C2 (as claimed), state part: is_ready() is never true while the producer's
\* Result is outstanding
C2_NotReadyWhileOutstanding ==
    \A f \in FutIds :
        (life[f] = "alive" /\ await_ready(state[f])) => ~Outstanding(f)

\* C2 (as claimed), step part: once is_ready() is true the state of the future
\* does not change any more, cancel() and a move from the future set aside
C2_FinalStep ==
    \A f \in FutIds :
        (/\ life[f] = "alive" /\ life'[f] = "alive"
         /\ await_ready(state[f])
         /\ ev'.op \notin {"cancel", "move"})
        => state'[f] = state[f]

\* C2 (as claimed): exactly one state holds for every future and a resolved
\* state is final: the future never goes back to unresolved, never changes its
\* resolved branch, and is_ready() is never true while the Result is outstanding
C2_ResolvedFinal ==
    /\ [](\A f \in FutIds : state[f] \in States)
    /\ []C2_NotReadyWhileOutstanding
    /\ [][C2_FinalStep]_vars

\* C2 (amended): exactly one state holds for every future, and a future never
\* returns from a resolved state to an unresolved one: once wakeup has run for
\* its Result, is_ready() is true, and is_ready() once true stays true.  (The
\* branch itself is not final: no_value is also the state of a future whose
\* Result is outstanding after create_result or get_temp_state.)
C2_NeverUnresolved ==
    /\ [](\A f \in FutIds : state[f] \in States)
    /\ [](\A f \in FutIds : (life[f] = "alive" /\ resolved[f]) => await_ready(state[f]))
    /\ [][\A f \in FutIds : (life[f] = "alive" /\ life'[f] = "alive" /\ await_ready(state[f]))
                                => await_ready(state'[f])]_vars

\* C2 witness: the task bound to a future was destroyed while suspended, the
\* future is resolved and its consumer has run again
C2_Witness ==
    \E f \in FutIds, c \in Coros :
        /\ life[f] = "alive" /\ resolved[f] /\ await_ready(state[f])
        /\ task = "destroyed" /\ target = f
        /\ awaits[c] = f /\ resumed[c] = 1

\* C3 (one step): the destruction of a bound Result leaves the future resolved,
\* Error if there is a current exception and Empty otherwise, clears the owner
\* and resumes the consumer that was registered, which finds the stored
\* exception or await_canceled_exception
C3_DropStep ==
    \A f \in FutIds :
        (ev'.op = "drop" /\ ev'.fut = f /\ life[f] = "alive") =>
            /\ state'[f] = IF ev'.exc THEN "exception" ELSE "no_value"
            /\ owner'[f] = NoOne
            /\ owner[f] # NoOne =>
                  /\ resumed'[owner[f]] = resumed[owner[f]] + 1
                  /\ seen'[owner[f]] = IF ev'.exc THEN "error" ELSE "canceled"

C4_ResumedOnce ==
    \A c \in Consumers :
        /\ resumed[c] <= 1
        /\ resumed[c] = 1 => seen[c] \in {"value", "error", "canceled"}
        /\ (awaits[c] # NoFut /\ resolved[awaits[c]] /\ ~fault) => resumed[c] = 1

\* C5 (one step): a second await_suspend, set_callback or create_result on a
\* future that has an owner and is not resolved
C5_SecondConsumerStep ==
    \A f \in FutIds :
        (/\ ev'.op \in {"co_await", "set_callback", "create_result"}
         /\ ev'.fut = f
         /\ owner[f] # NoOne
         /\ ~await_ready(state[f]))
        => (ev'.trapped /\ owner'[f] = owner[f] /\ runs' = runs)

\* C5: the registration of a second consumer on a future that has an owner and
\* is not resolved throws invalid_state, leaves the owner in place and does not
\* start the producer again
C5_SecondConsumerTraps == [][C5_SecondConsumerStep]_vars

\* no consumer has registered on any future
NoConsumerEver == \A c \in Consumers : awaits[c] = NoFut

\* C6 (one step): with no consumer registered, the destruction of a future that
\* holds a pending producer runs the producer once, without Result; the
\* destruction of a future that holds none (moved from, cancelled) runs nothing
C6_DestroyStep ==
    \A f \in FutIds :
        (ev'.op = "destroy" /\ ev'.fut = f /\ NoConsumerEver) =>
            IF state[f] \in Pending
            THEN /\ has[f]
                 /\ runs' = runs + 1 /\ detached' = detached + 1
                 /\ target' = NoFut
                 /\ results' = results
            ELSE runs' = runs /\ detached' = detached

\* C6: a pending producer on which no consumer registers is run exactly once, in
\* detached mode, when the future that holds it is destroyed
C6_DetachedOnce ==
    /\ [](NoConsumerEver => (runs <= 1 /\ detached = runs))
    /\ [][C6_DestroyStep]_vars

\* C6 witness: the producer was moved to a second future, both futures were
\* destroyed and the producer ran once, detached
C6_Witness ==
    /\ NoConsumerEver
    /\ \A f \in FutIds : life[f] = "dead"
    /\ runs = 1 /\ detached = 1

\* the future holds a task that was not started and has no owner
HoldsUnstartedTask(f) == state[f] = "coro" /\ has[f] /\ owner[f] = NoOne

\* C7 (as claimed, one step): the destructor of a future that holds a task that
\* was not started
C7_DestroyCancelsStep ==
    \A f \in FutIds :
        (ev'.op = "destroy" /\ ev'.fut = f /\ HoldsUnstartedTask(f))
        => (task' = "destroyed" /\ runs' = runs)

\* C7 (as claimed): the destruction of a future in state TaskPending destroys
\* the frame of the task without running its body
C7_DestroyCancels == [][C7_DestroyCancelsStep]_vars

\* C7 (amended, one step): the destruction starts the task detached; cancel()
\* destroys the frame without running the body
C7_DestroyRunsStep ==
    \A f \in FutIds :
        /\ (ev'.op = "destroy" /\ ev'.fut = f /\ HoldsUnstartedTask(f))
           => (/\ runs' = runs + 1 /\ detached' = detached + 1
               /\ target' = NoFut
               /\ task' \in {"finished", "suspended"} \/ fault')
        /\ (ev'.op = "cancel" /\ ev'.fut = f /\ HoldsUnstartedTask(f))
           => (/\ task' = "destroyed" /\ runs' = runs
               /\ state'[f] = "no_value")

\* C7 (amended): destroying a future that still holds a task that was not
\* started starts the task in detached mode (its body runs with no Result
\* bound); the frame is destroyed without the body running when the future is
\* cancelled with cancel()
C7_DestroyRunsDetached == [][C7_DestroyRunsStep]_vars

\* C7 witness: the future was destroyed and its task ran to completion detached
C7_Witness ==
    /\ ev.op = "destroy"
    /\ life[ev.fut] = "dead"
    /\ task = "finished" /\ runs = 1 /\ detached = 1 /\ target = NoFut


(***************************************************************************)
(* PART III: multi_lock<n> (src/coro_mutex.h:196-323).                     *)
(*                                                                         *)
(* A handler is evaluated on a record of the part's fields; the record is  *)
(* handed from call to call in the order in which the code runs them.  A   *)
(* prepared_coro returned by unlock() is a temporary that is destroyed at  *)
(* the end of the statement, so the callback of the granted waiter runs    *)
(* nested in the release.  `stack` holds the (record, multi_lock) pairs    *)
(* of the activations of lock_first that have not returned: entering       *)
(* lock_first with a pair of the stack repeats the same calls for ever.    *)
(***************************************************************************)
InitMulti ==
    /\ MutexIdle
    /\ FutureIdle
    /\ QueueIdle
    /\ RingIdle
    /\ PingIdle
    /\ GenIdle
    /\ EachIdle
    /\ AllIdle
    /\ ManualIdle
    /\ SchedIdle
    /\ DistIdle
    /\ mxLocked = [m \in Mtx |-> FALSE]
    /\ mxRequests = [m \in Mtx |-> <<>>]
    /\ mxQueue = [m \in Mtx |-> <<>>]
    /\ ext = [m \in Mtx |-> FALSE]
    /\ extN = 0
    /\ locking \in [MLs -> Lists]
    /\ owns = [k \in MLs |-> [a \in 1..NLock |-> FALSE]]
    /\ first = [k \in MLs |-> 0]
    /\ mlFuture = [k \in MLs |-> "none"]
    /\ mlFault = FALSE
    /\ mlFailed = [k \in MLs |-> NoIdx]

MultiWorld ==
    [mxLocked |-> mxLocked, mxRequests |-> mxRequests, mxQueue |-> mxQueue,
     owns |-> owns, first |-> first, mlFuture |-> mlFuture, mlFault |-> mlFault,
     mlFailed |-> mlFailed]

CommitMulti(w) ==
    /\ mxLocked' = w.mxLocked
    /\ mxRequests' = w.mxRequests
    /\ mxQueue' = w.mxQueue
    /\ owns' = w.owns
    /\ first' = w.first
    /\ mlFuture' = w.mlFuture
    /\ mlFault' = w.mlFault
    /\ mlFailed' = w.mlFailed
    /\ UNCHANGED locking

RECURSIVE ReverseSeq(_)
ReverseSeq(q) == IF q = <<>> THEN <<>> ELSE Append(ReverseSeq(Tail(q)), Head(q))

RECURSIVE mutex_unlock(_, _, _)
RECURSIVE release_owns(_, _, _, _)
RECURSIVE lock_others_loop(_, _, _, _)
RECURSIVE lock_complete(_, _, _)
RECURSIVE lock_first(_, _, _)

\* coro_mutex::unlock called by ownership::release, and the resumption of the granted waiter
mutex_unlock(w, m, stack) ==
    IF w.mlFault THEN w
    ELSE IF w.mxQueue[m] = <<>> THEN
        IF w.mxRequests[m] = <<>> THEN [w EXCEPT !.mxLocked[m] = FALSE]
        ELSE LET q == ReverseSeq(w.mxRequests[m])
             IN lock_complete([w EXCEPT !.mxRequests[m] = <<>>, !.mxQueue[m] = Tail(q)],
                              Head(q), stack)
    ELSE lock_complete([w EXCEPT !.mxQueue[m] = Tail(@)], Head(w.mxQueue[m]), stack)

\* for (auto &x: owns) x.release();   (entries a..n of owns)
release_owns_none(w, k, a, stack) == w

release_owns(w, k, a, stack) ==
    IF w.mlFault \/ a > NLock THEN w
    ELSE IF w.owns[k][a]
         THEN release_owns(mutex_unlock([w EXCEPT !.owns[k][a] = FALSE], locking[k][a], stack),
                           k, a + 1, stack)
         ELSE release_owns(w, k, a + 1, stack)

\* the loop of lock_others from counter i on: the ownership `o` of a successful try_lock is a
\* local of the loop body and unlocks the mutex again when the body is left
lock_others_loop(w, k, i, stack) ==
    IF i >= NLock THEN [w |-> w, x |-> NLock]
    ELSE LET idx == (i + w.first[k]) % NLock
             m == locking[k][idx + 1]
         IN IF m # Null /\ w.mxLocked[m]
            THEN [w |-> release_owns([w EXCEPT !.mlFailed[k] = idx], k, 1, stack), x |-> i]
            ELSE lock_others_loop(w, k, i + 1, stack)

lock_others(w, k, stack) == lock_others_loop(w, k, 1, stack)

\* the callback of lock_first: the ownership of locking[first] has arrived
lock_complete(w, k, stack) ==
    IF w.mlFault THEN w
    ELSE LET lo == lock_others([w EXCEPT !.owns[k][w.first[k] + 1] = TRUE], k, stack)
         IN IF lo.w.mlFault THEN lo.w
            ELSE IF lo.x # NLock THEN lock_first([lo.w EXCEPT !.first[k] = lo.x], k, stack)
            ELSE [lo.w EXCEPT !.mlFuture[k] = "ready"]

\* locking[first]->lock().set_callback(...): a free mutex gives a ready future and the callback
\* runs at once; an owned mutex gets the request pushed on _requests
lock_first(w, k, stack) ==
    IF w.mlFault THEN w
    ELSE IF <<w, k>> \in stack THEN [w EXCEPT !.mlFault = TRUE]
    ELSE LET m == locking[k][w.first[k] + 1]
         IN IF m = Null THEN [w EXCEPT !.mlFault = TRUE]
            ELSE IF ~w.mxLocked[m]
                 THEN lock_complete([w EXCEPT !.mxLocked[m] = TRUE], k, stack \cup {<<w, k>>})
                 ELSE [w EXCEPT !.mxRequests[m] = <<k>> \o @]

\* co_await ml.lock()
multi_lock_lock(w, k) ==
    LET m0 == locking[k][1]
    IN IF ~w.mxLocked[m0]
       THEN LET lo == lock_others([w EXCEPT !.mxLocked[m0] = TRUE], k, {})
            IN IF lo.x = NLock
               THEN mutex_unlock([lo.w EXCEPT !.mlFuture[k] = "ready"], m0, {})
               ELSE lock_first(mutex_unlock([lo.w EXCEPT !.first[k] = lo.x,
                                                         !.mlFuture[k] = "pending"], m0, {}),
                               k, {})
       ELSE lock_first([w EXCEPT !.mlFuture[k] = "pending"], k, {})

\* the ownerships of a completed multi_lock expire (elements of owns[] in reverse order)
RECURSIVE multi_lock_release(_, _, _)
multi_lock_release(w, k, a) ==
    IF w.mlFault \/ a < 1 THEN w
    ELSE IF w.owns[k][a]
         THEN multi_lock_release(mutex_unlock([w EXCEPT !.owns[k][a] = FALSE], locking[k][a], {}),
                                 k, a - 1)
         ELSE multi_lock_release(w, k, a - 1)

\* another party takes mutex m with try_lock()
ExtLock(m) ==
    /\ ~mlFault
    /\ extN < MaxExt
    /\ ~mxLocked[m]
    /\ mxLocked' = [mxLocked EXCEPT ![m] = TRUE]
    /\ ext' = [ext EXCEPT ![m] = TRUE]
    /\ extN' = extN + 1
    /\ UNCHANGED <<mxRequests, mxQueue, locking, owns, first, mlFuture, mlFault, mlFailed>>
    /\ UNCHANGED notMulti

\* that party's ownership expires
ExtUnlock(m) ==
    /\ ~mlFault
    /\ ext[m]
    /\ ext' = [ext EXCEPT ![m] = FALSE]
    /\ CommitMulti(mutex_unlock(MultiWorld, m, {}))
    /\ UNCHANGED extN
    /\ UNCHANGED notMulti

MultiLock(k) ==
    /\ ~mlFault
    /\ mlFuture[k] = "none"
    /\ CommitMulti(multi_lock_lock(MultiWorld, k))
    /\ UNCHANGED <<ext, extN>>
    /\ UNCHANGED notMulti

MultiRelease(k) ==
    /\ ~mlFault
    /\ mlFuture[k] = "ready"
    /\ CommitMulti(multi_lock_release([MultiWorld EXCEPT !.mlFuture[k] = "none"], k, NLock))
    /\ UNCHANGED <<ext, extN>>
    /\ UNCHANGED notMulti

NextMulti ==
    \/ \E m \in Mtx : ExtLock(m)
    \/ \E m \in Mtx : ExtUnlock(m)
    \/ \E k \in MLs : MultiLock(k)
    \/ \E k \in MLs : MultiRelease(k)

SpecMulti == InitMulti /\ [][NextMulti]_vars

\* what every ExtUnlock(m) step does to ext, and when it can be taken
ExtExpires(m) == ~mlFault /\ ext[m] /\ ext' = [ext EXCEPT ![m] = FALSE]

\* what every MultiRelease(k) step does to the future of k, and when it can be taken
MultiExpires(k) ==
    /\ ~mlFault
    /\ mlFuture[k] = "ready"
    /\ \E f \in [MLs -> {"none", "pending", "ready"}] : f[k] = "none" /\ mlFuture' = f

\* every holder releases, every multi_lock that completed releases.  ExtExpires(m) is enabled
\* exactly when ExtUnlock(m) is and the steps of NextMulti that satisfy it are the ExtUnlock(m)
\* steps, so that weak fairness of one is weak fairness of the other; the same for MultiExpires
FairMulti ==
    /\ \A m \in Mtx : WF_ext(ExtExpires(m))
    /\ \A k \in MLs : WF_mlFuture(MultiExpires(k))

FairSpecMulti == SpecMulti /\ FairMulti

\* C11: when the future of lock() resolves, every non-null mutex of the list is owned by the
\* multi_lock (its ownership is in owns[]) and locked, until the ownerships are released
C11_HoldsAll ==
    \A k \in MLs : mlFuture[k] = "ready" =>
        \A a \in 1..NLock : locking[k][a] # Null => owns[k][a] /\ mxLocked[locking[k][a]]

\* C12: every lock() of a multi_lock that does not complete at once completes eventually
C12_Completes ==
    \A k \in MLs : (mlFuture[k] = "pending") ~> (mlFuture[k] = "ready")

\* C12, second half: no multi_lock waits for a mutex while it owns another one
C12_NoHoldAndWait ==
    \A k \in MLs : mlFuture[k] = "pending" => \A a \in 1..NLock : ~owns[k][a]


(***************************************************************************)
(* PART IV: coro_queue (src/coro_queue.h).                                 *)
(*                                                                         *)
(* push(), pop() and set_closed() hold _mx while they decide; the closure  *)
(* of a pending push or pop runs later, when the future is awaited, and    *)
(* takes no lock: its accesses to _closed and to the wait list are steps   *)
(* of their own.  `ub` is the outcome of the undefined behaviour a handler *)
(* runs into (leaving push() without a return statement, an access to a    *)
(* slot that is dead): "benign" (the returned object reads as a resolved   *)
(* future, the dead slot's memory is intact) or "fault".                   *)
(***************************************************************************)
UB == {"benign", "fault"}

InitQueue == MutexIdle /\ FutureIdle /\ MultiIdle /\ QueueIdle /\ RingIdle /\ PingIdle /\ GenIdle /\ EachIdle /\ AllIdle /\ ManualIdle /\ SchedIdle /\ DistIdle

QueueWorld ==
    [items |-> qItems, front |-> qFront, back |-> qBack, popq |-> popq, pushq |-> pushq,
     popNext |-> popNext, pushNext |-> pushNext, closed |-> closedErr, pph |-> pph, cph |-> cph,
     got |-> got, out |-> out, parkOrder |-> parkOrder, served |-> served, dropped |-> dropped,
     fault |-> qFault, bare |-> bare, woke |-> woke, mx |-> FALSE, resm |-> {}]

CommitQueue(w) ==
    /\ qItems' = w.items
    /\ qFront' = w.front
    /\ qBack' = w.back
    /\ popq' = w.popq
    /\ pushq' = w.pushq
    /\ popNext' = w.popNext
    /\ pushNext' = w.pushNext
    /\ closedErr' = w.closed
    /\ pph' = w.pph
    /\ cph' = w.cph
    /\ got' = w.got
    /\ out' = w.out
    /\ parkOrder' = w.parkOrder
    /\ served' = w.served
    /\ dropped' = w.dropped
    /\ qFault' = w.fault
    /\ bare' = w.bare
    /\ woke' = w.woke

QFault(w) == [w EXCEPT !.fault = TRUE]

\* std::lock_guard _(_mx) and its destructor; mx and resm are the locals of the running
\* handler: _mx is held, the prepared handles resm holds
lock_guard(w) == [w EXCEPT !.mx = TRUE]
lock_guard_dtor(w) == [w EXCEPT !.mx = FALSE]

\* a read or write of a member of the queue
touch(w, member) == IF w.mx THEN w ELSE [w EXCEPT !.bare = @ \cup {member}]

\* ~prepared_coro: the frame it holds is resumed
prepared_coro_dtor(w) ==
    [w EXCEPT !.resm = {}, !.woke = @ \cup {[frame |-> h, locked |-> w.mx] : h \in w.resm}]

\* the locals of push and pop die in the reverse order of their declaration
\* (prepared_coro resm; std::lock_guard _(_mx);): first the guard, then resm
scope_exit_resm_first(w) == lock_guard_dtor(prepared_coro_dtor(w))

scope_exit(w) == prepared_coro_dtor(lock_guard_dtor(w))

is_full(w) == w.front - w.back >= Cap
is_empty(w) == w.front - w.back = 0

\* limited_queue::push and limited_queue::pop
ring_push(w, v) == [touch(w, "_queue") EXCEPT !.items[w.front % Cap] = v, !.front = @ + 1]
ring_front(w) == w.items[w.back % Cap]
ring_pop(w) == [touch(w, "_queue") EXCEPT !.items[w.back % Cap] = 0, !.back = @ + 1]

PopSlotAlive(w) == {j \in Poppers : w.cph[j] \in {"closure", "push", "link", "parked"}}
PushSlotAlive(w) == {i \in Pushers : w.pph[i] \in {"closure", "link", "parked"}}

\* link_list_queue::pop on the list q with the next pointers nxt
link_list_queue_pop(q, nxt, alive, ub) ==
    LET r == q.first
    IN IF r = q.last THEN [r |-> r, q |-> [first |-> Null, last |-> Null], fault |-> FALSE]
       ELSE IF r = Null THEN [r |-> Null, q |-> q, fault |-> TRUE]
       ELSE IF r \notin alive /\ ub = "fault" THEN [r |-> r, q |-> q, fault |-> TRUE]
       ELSE [r |-> r, q |-> [q EXCEPT !.first = nxt[r]], fault |-> FALSE]

\* slot->payload(v) on pop slot j: the Result of a parked popper, or of a dead slot
resolve_pop(w, j, v, ub) ==
    IF w.cph[j] = "parked"
    THEN [w EXCEPT !.cph[j] = "done", !.got[j] = v, !.out = Append(@, v),
                   !.served = Append(@, j), !.resm = {<<"popper", j>>}]
    ELSE IF ub = "fault" THEN QFault(w)
    ELSE [w EXCEPT !.dropped = @ \cup {v}]

\* push mutated: the value always goes to the ring, a parked popper is not looked for
push_ring_only(w0, i, ub) ==
    LET w == lock_guard(w0)
    IN  scope_exit(IF is_full(w) THEN [w EXCEPT !.pph[i] = "closure"]
                   ELSE IF ub = "fault" THEN QFault(ring_push(w, i))
                   ELSE [ring_push(w, i) EXCEPT !.pph[i] = "done"])

\* coro_basic_queue::push: the part under the lock, and the return
push(w0, i, ub) ==
    LET w == touch(lock_guard(w0), "_queue")
    IN  IF is_full(w) THEN scope_exit([w EXCEPT !.pph[i] = "closure"])
        ELSE LET p == link_list_queue_pop(w.popq, w.popNext, PopSlotAlive(w), ub)
                 wq == touch(w, "_pop_queue")
                 w1 == IF ~is_empty(w) THEN ring_push(w, i)
                       ELSE IF p.fault THEN QFault(wq)
                       ELSE IF p.r # Null THEN resolve_pop([wq EXCEPT !.popq = p.q], p.r, i, ub)
                       ELSE ring_push([wq EXCEPT !.popq = p.q], i)
             IN IF w1.fault \/ ub = "fault" THEN QFault(w1)
                ELSE scope_exit([w1 EXCEPT !.pph[i] = "done"])

\* coro_basic_queue::pop2 without its value: the ring loses its front item and the first parked
\* pusher, if any, is promoted into the ring and resumed
pop2(w, ub) ==
    LET w1 == touch(ring_pop(w), "_push_queue")
        p == link_list_queue_pop(w1.pushq, w1.pushNext, PushSlotAlive(w1), ub)
        w2 == [w1 EXCEPT !.pushq = p.q]
    IN IF p.fault THEN QFault(w1)
       ELSE IF p.r = Null THEN w2
       ELSE IF w2.pph[p.r] = "parked"
            THEN [ring_push(w2, p.r) EXCEPT !.pph[p.r] = "done", !.resm = {<<"pusher", p.r>>}]
       ELSE IF ub = "fault" THEN QFault(w2)
       ELSE ring_push(w2, p.r)

\* coro_basic_queue::pop: the part under the lock
pop(w0, j, ub) ==
    LET w == touch(lock_guard(w0), "_queue")
    IN  IF is_empty(w) THEN scope_exit([w EXCEPT !.cph[j] = "closure"])
        ELSE LET w1 == pop2(w, ub)
             IN IF w1.fault THEN w1
                ELSE scope_exit([w1 EXCEPT !.cph[j] = "done", !.got[j] = ring_front(w),
                                           !.out = Append(@, ring_front(w))])

\* coro_basic_queue::clear
RECURSIVE clear(_, _)
clear(w0, ub) ==
    LET w == touch(lock_guard(w0), "_queue")
    IN  IF w.fault \/ is_empty(w) THEN scope_exit(w)
        ELSE LET w1 == pop2(w, ub)
             IN IF w1.fault THEN w1
                ELSE clear(scope_exit([w1 EXCEPT !.out = Append(@, ring_front(w))]), ub)

\* the loop of set_closed over the slots taken from _pop_queue
RECURSIVE set_closed_loop(_, _, _)
set_closed_loop(w0, s, ub) ==
    IF w0.fault \/ s = Null THEN w0
    ELSE LET w == touch(w0, "_closed")
         IN IF w.cph[s] = "parked"
            THEN set_closed_loop([w EXCEPT !.cph[s] = "failed"], w.popNext[s], ub)
            ELSE IF ub = "fault" THEN QFault(w)
            ELSE set_closed_loop(w, w.popNext[s], ub)

\* coro_basic_queue::set_closed; mv is the state of `e` after _closed = std::move(e)
set_closed(w0, e, mv, ub) ==
    LET w == lock_guard(w0)
        w1 == [touch(w, "_closed") EXCEPT !.closed = e]
    IN IF e = NoErr \/ mv = "null" THEN lock_guard_dtor(w1)
       ELSE set_closed_loop(lock_guard_dtor([touch(w1, "_pop_queue") EXCEPT
                                                !.popq.first = w.popq.last]),
                            w.popq.first, ub)

Push(i, ub) ==
    /\ ~qFault
    /\ i = nPushed + 1
    /\ nPushed' = i
    /\ CommitQueue(push(QueueWorld, i, ub))
    /\ UNCHANGED <<plast, clast, nPopped, nClose, nClear>>
    /\ UNCHANGED notQueue

\* the closure of push, first half: slot.payload.res = std::move(r); if (last)
PushClosureRead(i) ==
    /\ ~qFault
    /\ pph[i] = "closure"
    /\ pph' = [pph EXCEPT ![i] = "link"]
    /\ plast' = [plast EXCEPT ![i] = pushq.last]
    /\ bare' = touch(QueueWorld, "_push_queue").bare
    /\ UNCHANGED woke
    /\ UNCHANGED <<qItems, qFront, qBack, popq, pushq, popNext, pushNext, closedErr, cph, clast,
                   got, out, parkOrder, served, dropped, nPushed, nPopped, nClose, nClear, qFault>>
    /\ UNCHANGED notQueue

\* the closure of push, second half: last->next = s; last = s;  or  first = last = s;
PushClosureLink(i, ub) ==
    /\ ~qFault
    /\ pph[i] = "link"
    /\ IF plast[i] # Null /\ plast[i] \notin PushSlotAlive(QueueWorld) /\ ub = "fault"
       THEN qFault' = TRUE /\ pph' = [pph EXCEPT ![i] = "fault"] /\ UNCHANGED <<pushq, pushNext>>
       ELSE /\ pph' = [pph EXCEPT ![i] = "parked"]
            /\ pushq' = IF plast[i] # Null THEN [pushq EXCEPT !.last = i]
                        ELSE [first |-> i, last |-> i]
            /\ pushNext' = IF plast[i] # Null THEN [pushNext EXCEPT ![plast[i]] = i] ELSE pushNext
            /\ UNCHANGED qFault
    /\ bare' = touch(QueueWorld, "_push_queue").bare
    /\ UNCHANGED woke
    /\ UNCHANGED <<qItems, qFront, qBack, popq, popNext, closedErr, plast, cph, clast,
                   got, out, parkOrder, served, dropped, nPushed, nPopped, nClose, nClear>>
    /\ UNCHANGED notQueue

Pop(j, ub) ==
    /\ ~qFault
    /\ j = nPopped + 1
    /\ nPopped' = j
    /\ CommitQueue(pop(QueueWorld, j, ub))
    /\ UNCHANGED <<plast, clast, nPushed, nClose, nClear>>
    /\ UNCHANGED notQueue

\* the closure of pop: if (_closed) { r = _closed; return; }
PopClosureCheck(j) ==
    /\ ~qFault
    /\ cph[j] = "closure"
    /\ cph' = [cph EXCEPT ![j] = IF closedErr # NoErr THEN "failed" ELSE "push"]
    /\ bare' = touch(QueueWorld, "_closed").bare
    /\ UNCHANGED woke
    /\ UNCHANGED <<qItems, qFront, qBack, popq, pushq, popNext, pushNext, closedErr, pph, plast,
                   clast, got, out, parkOrder, served, dropped, nPushed, nPopped, nClose, nClear,
                   qFault>>
    /\ UNCHANGED notQueue

\* the closure of pop: slot.payload = std::move(r); if (last)
PopClosureRead(j) ==
    /\ ~qFault
    /\ cph[j] = "push"
    /\ cph' = [cph EXCEPT ![j] = "link"]
    /\ clast' = [clast EXCEPT ![j] = popq.last]
    /\ bare' = touch(QueueWorld, "_pop_queue").bare
    /\ UNCHANGED woke
    /\ UNCHANGED <<qItems, qFront, qBack, popq, pushq, popNext, pushNext, closedErr, pph, plast,
                   got, out, parkOrder, served, dropped, nPushed, nPopped, nClose, nClear, qFault>>
    /\ UNCHANGED notQueue

\* the closure of pop: last->next = s; last = s;  or  first = last = s;
PopClosureLink(j, ub) ==
    /\ ~qFault
    /\ cph[j] = "link"
    /\ IF clast[j] # Null /\ clast[j] \notin PopSlotAlive(QueueWorld) /\ ub = "fault"
       THEN /\ qFault' = TRUE
            /\ cph' = [cph EXCEPT ![j] = "fault"]
            /\ UNCHANGED <<popq, popNext, parkOrder>>
       ELSE /\ cph' = [cph EXCEPT ![j] = "parked"]
            /\ popq' = IF clast[j] # Null THEN [popq EXCEPT !.last = j]
                       ELSE [first |-> j, last |-> j]
            /\ popNext' = IF clast[j] # Null THEN [popNext EXCEPT ![clast[j]] = j] ELSE popNext
            /\ parkOrder' = Append(parkOrder, j)
            /\ UNCHANGED qFault
    /\ bare' = touch(QueueWorld, "_pop_queue").bare
    /\ UNCHANGED woke
    /\ UNCHANGED <<qItems, qFront, qBack, pushq, pushNext, closedErr, pph, plast, clast,
                   got, out, served, dropped, nPushed, nPopped, nClose, nClear>>
    /\ UNCHANGED notQueue

Clear(ub) ==
    /\ ~qFault
    /\ nClear < MaxClear
    /\ nClear' = nClear + 1
    /\ CommitQueue(clear(QueueWorld, ub))
    /\ UNCHANGED <<plast, clast, nPushed, nPopped, nClose>>
    /\ UNCHANGED notQueue

SetClosed(e, mv, ub) ==
    /\ ~qFault
    /\ nClose < MaxClose
    /\ nClose' = nClose + 1
    /\ CommitQueue(set_closed(QueueWorld, e, mv, ub))
    /\ UNCHANGED <<plast, clast, nPushed, nPopped, nClear>>
    /\ UNCHANGED notQueue

NextQueue ==
    \/ \E i \in Pushers, ub \in UB : Push(i, ub)
    \/ \E i \in Pushers : PushClosureRead(i)
    \/ \E i \in Pushers, ub \in UB : PushClosureLink(i, ub)
    \/ \E j \in Poppers, ub \in UB : Pop(j, ub)
    \/ \E j \in Poppers : PopClosureCheck(j)
    \/ \E j \in Poppers : PopClosureRead(j)
    \/ \E j \in Poppers, ub \in UB : PopClosureLink(j, ub)
    \/ \E ub \in UB : Clear(ub)
    \/ \E e \in {NoErr, Err}, mv \in {"null", "kept"}, ub \in UB : SetClosed(e, mv, ub)

SpecQueue == InitQueue /\ [][NextQueue]_vars

\* the values in the ring, and the push slots reachable from _push_queue.first
InRing == {qItems[x % Cap] : x \in qBack..(qFront - 1)}

RECURSIVE Linked(_, _, _)
Linked(s, nxt, fuel) ==
    IF s = Null \/ fuel = 0 THEN {} ELSE {s} \cup Linked(nxt[s], nxt, fuel - 1)

PushWaiting == Linked(pushq.first, pushNext, NPush)
PopWaiting == Linked(popq.first, popNext, NPop)

Position(q, x) == CHOOSE n \in 1..Len(q) : q[n] = x

\* no value leaves the queue twice, and only pushed values leave it
C13_NoDuplicate ==
    /\ \A a, b \in 1..Len(out) : a # b => out[a] # out[b]
    /\ \A a \in 1..Len(out) : out[a] \in 1..nPushed

\* values leave the queue in the order in which their pushes were issued (pusher i is the
\* i-th to call push)
C13_PushOrder == \A a, b \in 1..Len(out) : a < b => out[a] < out[b]

\* a parked popper is given a value only when no popper that parked before it still waits
C13_PopperOrder ==
    \A a \in 1..Len(served) : \A b \in 1..Len(parkOrder) :
        b < Position(parkOrder, served[a]) => cph[parkOrder[b]] # "parked"

\* a pushed value is on its way to the ring, in the ring, or has left the queue to a popper
C13_NoLoss ==
    ~qFault =>
        /\ dropped = {}
        /\ \A v \in 1..nPushed :
            \/ \E a \in 1..Len(out) : out[a] = v
            \/ v \in InRing
            \/ pph[v] \in {"closure", "link"}
            \/ pph[v] = "parked" /\ v \in PushWaiting

\* C13: the popped values are the pushed values, none lost and none duplicated, in push order,
\* and parked poppers are served in the order in which they parked
C13_Preserved == C13_NoDuplicate /\ C13_PushOrder /\ C13_PopperOrder /\ C13_NoLoss

\* a step of set_closed(e) with a non-empty e
ClosingStep == nClose' = nClose + 1 /\ closedErr' = Err

C14_CloseStep ==
    ClosingStep =>
        /\ \A j \in Poppers : (cph[j] = "parked" /\ j \in PopWaiting) => cph'[j] = "failed"
        /\ popq' = [first |-> Null, last |-> Null]

\* C14: set_closed(e) with a non-empty e marks the queue closed, fails every popper parked on
\* the pop-wait list with e and leaves the list empty
C14_Closes == [][C14_CloseStep]_vars

PushStep(i) == nPushed = i - 1 /\ nPushed' = i
PopStep(j) == nPopped = j - 1 /\ nPopped' = j
IsClosed == closedErr # NoErr

\* while closed, pop() on a non-empty ring returns the front item
C15_PopBuffered ==
    \A j \in Poppers : (PopStep(j) /\ IsClosed /\ qFront # qBack) =>
        cph'[j] = "done" /\ got'[j] = qItems[qBack % Cap]

\* while closed, push() takes the item: into the ring, to a parked popper, or to wait for room
C15_PushAccepted ==
    \A i \in Pushers : (PushStep(i) /\ IsClosed) =>
        IF qFront - qBack >= Cap THEN pph'[i] = "closure"
        ELSE i \in InRing' \/ \E j \in Poppers : cph[j] = "parked" /\ got'[j] = i

\* a pop awaited on the empty ring fails when the queue is closed and goes on to park when it
\* is open (never closed, or re-opened by set_closed with an empty error), and only such pops fail
C15_EmptyPop ==
    \A j \in Poppers :
        /\ (cph[j] = "closure" /\ cph'[j] # "closure") =>
                cph'[j] = IF IsClosed THEN "failed" ELSE "push"
        /\ (cph[j] = "link" /\ cph'[j] # "link" /\ nClose > 0 /\ ~IsClosed) => cph'[j] = "parked"
        /\ (cph[j] # "failed" /\ cph'[j] = "failed") => cph[j] \in {"closure", "parked"}

\* set_closed with an empty error opens the queue
C15_Reopen == (nClose' = nClose + 1 /\ closedErr' = NoErr) => ~IsClosed'

\* C15: closing affects only pops awaited on an empty ring: buffered items are still popped in
\* order, pushes are still accepted, an empty error re-opens the queue
C15_ClosedQueue ==
    [][C15_PopBuffered /\ C15_PushAccepted /\ C15_EmptyPop /\ C15_Reopen]_vars

\* an operation is between its call and the end of its closure
InProgress ==
    \/ \E i \in Pushers : pph[i] \in {"closure", "link"}
    \/ \E j \in Poppers : cph[j] \in {"closure", "push", "link"}

C16_ClearStep ==
    (nClear' = nClear + 1 /\ ~InProgress) =>
        /\ qFront' = qBack'
        /\ pushq' = [first |-> Null, last |-> Null]
        /\ \A i \in Pushers : pph[i] = "parked" => pph'[i] = "done"

\* C16: when clear() returns, with no operation in progress, the ring is empty, the push-wait
\* list is empty and every pusher that was parked has been resumed
C16_Clears == [][C16_ClearStep]_vars

(***************************************************************************)
(* PART V: distributor (src/coro_distributor.h).  Every operation, the     *)
(* closure of a subscription included, runs under _mx from start to end.   *)
(***************************************************************************)
InitDist == MutexIdle /\ FutureIdle /\ MultiIdle /\ QueueIdle /\ RingIdle /\ PingIdle /\ GenIdle /\ EachIdle /\ AllIdle /\ ManualIdle /\ SchedIdle /\ DistIdle

\* std::find_if(_results.begin(), _results.end(), x.i == id): the index found, 0 for end()
find_if(rs, id) ==
    IF \E n \in 1..Len(rs) : rs[n].i = id
    THEN CHOOSE n \in 1..Len(rs) : rs[n].i = id /\ \A k \in 1..(n - 1) : rs[k].i # id
    ELSE 0

\* mutated removal: pop_back() without the swap
pop_back_only(rs, n) == SubSeq(rs, 1, Len(rs) - 1)

\* if (iter != last) std::swap(*iter, *last); _results.pop_back();
swap_pop(rs, n) == SubSeq([rs EXCEPT ![n] = rs[Len(rs)]], 1, Len(rs) - 1)

CanDist == dops < MaxDOps

\* co_await dist(id) of subscriber x
Subscribe(x, id) ==
    /\ CanDist
    /\ sub[x] # "waiting"
    /\ d_results' = Append(d_results, [s |-> x, i |-> id, aw |-> FALSE])
    /\ sub' = [sub EXCEPT ![x] = "waiting"]
    /\ dops' = dops + 1
    /\ UNCHANGED <<flag, recv, nb, dret>>
    /\ UNCHANGED notDist

\* mutated alert-aware subscription: the flag is not looked at
SubscribeAlertAlways(x, f) ==
    /\ CanDist
    /\ sub[x] # "waiting"
    /\ d_results' = Append(d_results, [s |-> x, i |-> f, aw |-> TRUE])
    /\ sub' = [sub EXCEPT ![x] = "waiting"]
    /\ dops' = dops + 1
    /\ UNCHANGED <<flag, recv, nb, dret>>
    /\ UNCHANGED notDist

\* co_await dist(alert_flag) of subscriber x: a set flag drops the Result
SubscribeAlert(x, f) ==
    /\ CanDist
    /\ sub[x] # "waiting"
    /\ IF flag[f]
       THEN sub' = [sub EXCEPT ![x] = "empty"] /\ UNCHANGED d_results
       ELSE /\ d_results' = Append(d_results, [s |-> x, i |-> f, aw |-> TRUE])
            /\ sub' = [sub EXCEPT ![x] = "waiting"]
    /\ dops' = dops + 1
    /\ UNCHANGED <<flag, recv, nb, dret>>
    /\ UNCHANGED notDist

Registered == {d_results[n].s : n \in 1..Len(d_results)}

\* mutated broadcast: _results is not cleared
BroadcastKeep ==
    /\ CanDist
    /\ nb < MaxBcast
    /\ nb' = nb + 1
    /\ sub' = [x \in Subs |-> IF x \in Registered THEN "value" ELSE sub[x]]
    /\ recv' = [x \in Subs |-> IF x \in Registered THEN Append(recv[x], nb + 1) ELSE recv[x]]
    /\ dops' = dops + 1
    /\ UNCHANGED <<d_results, flag, dret>>
    /\ UNCHANGED notDist

\* dist.broadcast(v)
Broadcast ==
    /\ CanDist
    /\ nb < MaxBcast
    /\ nb' = nb + 1
    /\ sub' = [x \in Subs |-> IF x \in Registered THEN "value" ELSE sub[x]]
    /\ recv' = [x \in Subs |-> IF x \in Registered THEN Append(recv[x], nb + 1) ELSE recv[x]]
    /\ d_results' = <<>>
    /\ dops' = dops + 1
    /\ UNCHANGED <<flag, dret>>
    /\ UNCHANGED notDist

\* dist.kick_out(id) and dist.kick_out(id, e)
KickOut(id, how) ==
    /\ CanDist
    /\ LET n == find_if(d_results, id)
       IN IF n # 0
          THEN /\ sub' = [sub EXCEPT ![d_results[n].s] = how]
               /\ dret' = d_results[n].s
               /\ d_results' = swap_pop(d_results, n)
          ELSE /\ dret' = 0
               /\ UNCHANGED <<sub, d_results>>
    /\ dops' = dops + 1
    /\ UNCHANGED <<flag, recv, nb>>
    /\ UNCHANGED notDist

\* dist.alert(alert_flag)
Alert(f) ==
    /\ CanDist
    /\ flag' = [flag EXCEPT ![f] = TRUE]
    /\ LET n == find_if(d_results, f)
       IN IF n # 0
          THEN /\ sub' = [sub EXCEPT ![d_results[n].s] = "empty"]
               /\ dret' = d_results[n].s
               /\ d_results' = swap_pop(d_results, n)
          ELSE /\ dret' = 0
               /\ UNCHANGED <<sub, d_results>>
    /\ dops' = dops + 1
    /\ UNCHANGED <<recv, nb>>
    /\ UNCHANGED notDist

\* the owner of the flag clears it (alert_flag_type::reset, std::atomic<bool>::store(false))
FlagReset(f) ==
    /\ CanDist
    /\ flag[f]
    /\ flag' = [flag EXCEPT ![f] = FALSE]
    /\ dops' = dops + 1
    /\ UNCHANGED <<d_results, sub, recv, nb, dret>>
    /\ UNCHANGED notDist

NextDist ==
    \/ \E x \in Subs, id \in Ids : Subscribe(x, id)
    \/ \E x \in Subs, f \in Ids : SubscribeAlert(x, f)
    \/ Broadcast
    \/ \E id \in Ids, how \in {"empty", "error"} : KickOut(id, how)
    \/ \E f \in Ids : Alert(f)
    \/ \E f \in Ids : FlagReset(f)

SpecDist == InitDist /\ [][NextDist]_vars

(***************************************************************************)
(* Claims about the distributor.                                           *)
(***************************************************************************)
Entries(rs, id) == {n \in 1..Len(rs) : rs[n].i = id}

\* the subscribers whose co_await is pending
Waiting == {x \in Subs : sub[x] = "waiting"}

\* the list holds exactly the pending subscribers, each of them once
C17_Registry ==
    /\ Registered = Waiting
    /\ \A n, k \in 1..Len(d_results) : d_results[n].s = d_results[k].s => n = k

BroadcastStep == nb' = nb + 1

\* a broadcast gives its value, once, to every subscriber registered when it is called and
\* empties the list; nobody else receives anything, and nothing but a broadcast delivers a value
C17_BroadcastStep ==
    [][/\ BroadcastStep =>
            /\ d_results' = <<>>
            /\ \A x \in Subs :
                  IF x \in Registered
                  THEN recv'[x] = Append(recv[x], nb + 1) /\ sub'[x] = "value"
                  ELSE recv'[x] = recv[x] /\ sub'[x] = sub[x]
       /\ ~BroadcastStep => recv' = recv]_vars

\* a value is received only by a subscriber whose co_await is pending, and ends that co_await:
\* one value per subscription, none for a subscriber that was kicked out or alerted
C17_OnePerSubscription ==
    [][\A x \in Subs : recv'[x] # recv[x] => sub[x] = "waiting" /\ sub'[x] = "value"]_vars

\* C17: every subscriber registered when broadcast(v) is called receives exactly one v and is
\* no longer registered afterwards; a subscriber receives only the broadcasts issued while
\* it is registered, one per subscription
C17_Broadcast == [](C17_Registry) /\ C17_BroadcastStep /\ C17_OnePerSubscription

\* two subscribers got the broadcast, one kicked out before it did not
C17_Witness ==
    \E x, y, z \in Subs :
        /\ x # y
        /\ nb = 1
        /\ recv[x] = <<1>> /\ sub[x] = "value"
        /\ recv[y] = <<1>> /\ sub[y] = "value"
        /\ sub[z] \in {"empty", "error"}
        /\ recv[z] = <<>>
        /\ d_results = <<>>

\* the entries of the list made by an alert-aware subscription with the flag f
AwareEntries(rs, f) == {n \in Entries(rs, f) : rs[n].aw}

\* C18 (as stated): while the flag is set no alert-aware subscription with identity &flag is
\* registered
C18_NoneWhileSet == \A f \in Ids : flag[f] => AwareEntries(d_results, f) = {}

\* alert(flag) sets the flag and, when at most one subscription has the identity &flag, leaves
\* none registered, the one it removed resolved Empty
C18_AlertStep ==
    [][\A f \in Ids :
          (Alert(f) /\ Cardinality(Entries(d_results, f)) <= 1) =>
              /\ flag'[f]
              /\ Entries(d_results', f) = {}
              /\ \A n \in Entries(d_results, f) :
                    sub'[d_results[n].s] = "empty" /\ dret' = d_results[n].s]_vars

\* an alert-aware subscription attempted while the flag is set is refused: the list is
\* unchanged and the co_await ends with Empty
C18_RefusedStep ==
    [][\A f \in Ids, x \in Subs :
          (SubscribeAlert(x, f) /\ flag[f]) =>
              /\ d_results' = d_results
              /\ sub'[x] = "empty"]_vars

\* while the flag stays set no alert-aware subscription with identity &flag joins the list
C18_StaysOut ==
    [][\A f \in Ids :
          (flag[f] /\ flag'[f]) =>
              Cardinality(AwareEntries(d_results', f)) <= Cardinality(AwareEntries(d_results, f))]_vars

\* C18 (amended): when at most one subscription has the identity &flag, after alert(flag) none
\* is registered while the flag stays set: one registered before was removed and resolved
\* Empty, one attempted after is refused
C18_AlertUnique == C18_AlertStep /\ C18_RefusedStep /\ C18_StaysOut

\* subscriber x was removed by alert, subscriber y was refused afterwards, and the broadcast
\* that followed reached neither
C18_Witness ==
    \E f \in Ids, x, y \in Subs :
        /\ x # y
        /\ flag[f]
        /\ dret = x
        /\ sub[x] = "empty" /\ recv[x] = <<>>
        /\ sub[y] = "empty" /\ recv[y] = <<>>
        /\ nb = 1
        /\ dops = 4

\* the entries of a list, as a set
EntrySet(rs) == {rs[n] : n \in 1..Len(rs)}

\* C19: kick_out(id, ...) resolves (Empty, or the given error) and removes at most one
\* subscription whose identity equals id and leaves every other one registered and
\* unresolved; when none matches, the list is unchanged and the returned handle is empty
C19_KickOutStep ==
    [][\A id \in Ids, how \in {"empty", "error"} :
          KickOut(id, how) =>
              IF Entries(d_results, id) = {}
              THEN d_results' = d_results /\ dret' = 0 /\ sub' = sub
              ELSE \E n \in Entries(d_results, id) :
                      /\ sub'[d_results[n].s] = how
                      /\ dret' = d_results[n].s
                      /\ EntrySet(d_results') = EntrySet(d_results) \ {d_results[n]}
                      /\ Len(d_results') = Len(d_results) - 1
                      /\ \A x \in Subs \ {d_results[n].s} : sub'[x] = sub[x]]_vars

\* a subscriber was kicked out with an error while two others stay registered and unresolved
C19_Witness ==
    /\ dret # 0
    /\ sub[dret] = "error"
    /\ Len(d_results) = 2
    /\ \A n \in 1..Len(d_results) : sub[d_results[n].s] = "waiting"
    /\ dops = 4

(***************************************************************************)
(* PART VI: scheduler (src/coro_scheduler.h).  generic_scheduler keeps     *)
(* _heap with std::push_heap / std::pop_heap (modelled as libstdc++        *)
(* computes them) and its own update_heap_element.  Positions of the       *)
(* vector count from 0, as in the source.                                  *)
(***************************************************************************)
InitSched == MutexIdle /\ FutureIdle /\ MultiIdle /\ QueueIdle /\ RingIdle /\ PingIdle /\ GenIdle /\ EachIdle /\ AllIdle /\ ManualIdle /\ DistIdle /\ SchedIdle

El(h, i) == h[i + 1]
Put(h, i, v) == [h EXCEPT ![i + 1] = v]
pop_back(h) == SubSeq(h, 1, Len(h) - 1)

\* mutated order: the latest deadline first
compare_less(a, b) == a.timestamp < b.timestamp

\* generic_scheduler::compare
compare(a, b) == a.timestamp > b.timestamp

\* std::__push_heap: the hole moves up while its parent compares before the value
RECURSIVE push_heap_loop(_, _, _, _)
push_heap_loop(h, hole, top, value) ==
    LET parent == (hole - 1) \div 2
    IN IF hole > top /\ compare(El(h, parent), value)
       THEN push_heap_loop(Put(h, hole, El(h, parent)), parent, top, value)
       ELSE Put(h, hole, value)

\* std::push_heap(_heap.begin(), _heap.end(), compare)
push_heap(h) == push_heap_loop(h, Len(h) - 1, 0, h[Len(h)])

\* std::__adjust_heap, first loop: the hole moves down to a leaf
RECURSIVE adjust_loop(_, _, _)
adjust_loop(h, hole, len) ==
    IF hole < (len - 1) \div 2
    THEN LET right == 2 * (hole + 1)
             child == IF compare(El(h, right), El(h, right - 1)) THEN right - 1 ELSE right
         IN adjust_loop(Put(h, hole, El(h, child)), child, len)
    ELSE [h |-> h, hole |-> hole]

\* std::__adjust_heap
adjust_heap(h, len, value) ==
    LET a == adjust_loop(h, 0, len)
        b == IF len % 2 = 0 /\ a.hole = (len - 2) \div 2
             THEN [h |-> Put(a.h, a.hole, El(a.h, 2 * (a.hole + 1) - 1)),
                   hole |-> 2 * (a.hole + 1) - 1]
             ELSE a
    IN push_heap_loop(b.h, b.hole, 0, value)

\* std::pop_heap(_heap.begin(), _heap.end(), compare)
pop_heap(h) ==
    IF Len(h) > 1
    THEN adjust_heap(Put(h, Len(h) - 1, El(h, 0)), Len(h) - 1, h[Len(h)])
    ELSE h

schedule_at(h, x, timestamp, ident) ==
    push_heap(Append(h, [timestamp |-> timestamp, res |-> x, ident |-> ident]))

get_first_scheduled_time(h) == IF h = <<>> THEN NoTime ELSE h[1].timestamp

\* mutated removal: the back of the vector is taken without std::pop_heap
remove_back(h) ==
    IF h # <<>>
    THEN [h |-> pop_back(h), out |-> h[Len(h)]]
    ELSE [h |-> h, out |-> NoItem]

\* the heap left and the item taken out (NoItem: none)
remove_first(h) ==
    IF h # <<>>
    THEN LET h1 == pop_heap(h) IN [h |-> pop_back(h1), out |-> h1[Len(h1)]]
    ELSE [h |-> h, out |-> NoItem]

RECURSIVE shift_up(_, _)
shift_up(h, pos) ==
    LET parent == (pos - 1) \div 2
    IN IF pos > 0 /\ compare(El(h, parent), El(h, pos))
       THEN shift_up(Put(Put(h, parent, El(h, pos)), pos, El(h, parent)), parent)
       ELSE h

RECURSIVE shift_down(_, _)
shift_down(h, pos) ==
    LET n == Len(h)
        left == 2 * pos + 1
        right == 2 * pos + 2
        l1 == IF left < n /\ compare(El(h, pos), El(h, left)) THEN left ELSE pos
        largest == IF right < n /\ compare(El(h, l1), El(h, right)) THEN right ELSE l1
    IN IF largest # pos
       THEN shift_down(Put(Put(h, pos, El(h, largest)), largest, El(h, pos)), largest)
       ELSE h

update_heap_element(h, pos, new_value) ==
    LET up == compare(El(h, pos), new_value)
        h1 == Put(h, pos, new_value)
    IN IF up THEN shift_up(h1, pos) ELSE shift_down(h1, pos)

\* the position of the first item with the identity, Len(h) for none
RECURSIVE find_ident(_, _, _)
find_ident(h, ident, i) ==
    IF i < Len(h) /\ El(h, i).ident # ident THEN find_ident(h, ident, i + 1) ELSE i

\* the heap left and the item taken out (NoItem: none); the last item is moved from when it
\* is handed to update_heap_element and keeps its time stamp until pop_back
remove_by_ident(h, ident) ==
    LET i == find_ident(h, ident, 0)
        cnt == Len(h)
    IN IF i = cnt THEN [h |-> h, out |-> NoItem]
       ELSE IF i = 0 THEN [h |-> remove_first(h).h, out |-> El(h, 0)]
       ELSE IF i = cnt - 1 THEN [h |-> pop_back(h), out |-> El(h, i)]
       ELSE LET moved == Put(h, cnt - 1, [El(h, cnt - 1) EXCEPT !.res = 0])
            IN [h |-> pop_back(update_heap_element(moved, i, El(h, cnt - 1))),
                out |-> El(h, i)]

RECURSIVE set_time_loop(_, _, _, _, _)
set_time_loop(h, ident, new_tp, i, cnt) ==
    IF i >= cnt THEN h
    ELSE IF El(h, i).ident = ident
         THEN set_time_loop(update_heap_element(h, i, [El(h, i) EXCEPT !.timestamp = new_tp]),
                            ident, new_tp, i + 1, cnt)
         ELSE set_time_loop(h, ident, new_tp, i + 1, cnt)

set_time(h, ident, new_tp) == set_time_loop(h, ident, new_tp, 0, Len(h))

\* the sleepers start in the order of their identifiers (the array of tests/scheduler.cpp)
InTurn(s) == \A r \in 1..(s - 1) : sl[r] # "idle"

\* _cv.notify_all(): the driver leaves its wait
notify_all(p) == IF p = "wait" THEN "top" ELSE p

\* co_await sch.sleep_for(ms) of sleeper s
SleepFor(s) ==
    /\ dpc # "body"
    /\ sl[s] = "idle"
    /\ InTurn(s)
    /\ LET t == now + ms[s]
           n == get_first_scheduled_time(heap)
       IN /\ dpc' = IF n = NoTime \/ t < n THEN notify_all(dpc) ELSE dpc
          /\ heap' = schedule_at(heap, s, t, NullIdent)
          /\ tp' = [tp EXCEPT ![s] = t]
    /\ sl' = [sl EXCEPT ![s] = "sleeping"]
    /\ UNCHANGED <<now, aflag, stopReq, waitTm, cur, fired, nCancel, nAlert, nTick>>
    /\ UNCHANGED notSched

\* co_await sch.sleep_for_alertable(flag, ms) of sleeper s with its own flag; tp < optional
\* is false for an empty optional
SleepAlertable(s) ==
    /\ s \in Flags
    /\ dpc # "body"
    /\ sl[s] = "idle"
    /\ InTurn(s)
    /\ IF aflag[s]
       THEN /\ sl' = [sl EXCEPT ![s] = "refused"]
            /\ UNCHANGED <<heap, tp, dpc>>
       ELSE LET t == now + ms[s]
                n == get_first_scheduled_time(heap)
            IN /\ dpc' = IF n # NoTime /\ t < n THEN notify_all(dpc) ELSE dpc
               /\ heap' = schedule_at(heap, s, t, s)
               /\ tp' = [tp EXCEPT ![s] = t]
               /\ sl' = [sl EXCEPT ![s] = "sleeping"]
    /\ UNCHANGED <<now, aflag, stopReq, waitTm, cur, fired, nCancel, nAlert, nTick>>
    /\ UNCHANGED notSched

\* mutated alert: the driver is not notified
SchedAlertQuiet(f) ==
    /\ dpc # "body"
    /\ nAlert < MaxAlert
    /\ nAlert' = nAlert + 1
    /\ aflag' = [aflag EXCEPT ![f] = TRUE]
    /\ heap' = set_time(heap, f, now)
    /\ tp' = [s \in Sleepers |->
                IF \E n \in 1..Len(heap) : heap[n].ident = f /\ heap[n].res = s
                THEN now ELSE tp[s]]
    /\ UNCHANGED <<now, sl, dpc, stopReq, waitTm, cur, fired, nCancel, nTick>>
    /\ UNCHANGED notSched

\* sch.alert(flag)
SchedAlert(f) ==
    /\ dpc # "body"
    /\ nAlert < MaxAlert
    /\ nAlert' = nAlert + 1
    /\ aflag' = [aflag EXCEPT ![f] = TRUE]
    /\ heap' = set_time(heap, f, now)
    /\ tp' = [s \in Sleepers |->
                IF \E n \in 1..Len(heap) : heap[n].ident = f /\ heap[n].res = s
                THEN now ELSE tp[s]]
    /\ dpc' = notify_all(dpc)
    /\ UNCHANGED <<now, sl, stopReq, waitTm, cur, fired, nCancel, nTick>>
    /\ UNCHANGED notSched

\* sch.cancel(ident)
SchedCancel(id) ==
    /\ dpc # "body"
    /\ nCancel < MaxCancel
    /\ nCancel' = nCancel + 1
    /\ LET r == remove_by_ident(heap, id)
       IN /\ heap' = r.h
          /\ sl' = IF r.out = NoItem THEN sl ELSE [sl EXCEPT ![r.out.res] = "canceled"]
    /\ UNCHANGED <<now, aflag, tp, dpc, stopReq, waitTm, cur, fired, nAlert, nTick>>
    /\ UNCHANGED notSched

\* the instants the clock is looked at: the first millisecond past each deadline and past
\* the timeout of a driver in _cv.wait_until
Instants ==
    {heap[n].timestamp + 1 : n \in 1..Len(heap)}
        \cup (IF dpc = "wait" /\ waitTm # NoTime THEN {waitTm + 1} ELSE {})

\* the system clock advances
Tick ==
    /\ nTick < MaxTick
    /\ nTick' = nTick + 1
    /\ \E t \in Instants : t > now /\ now' = t
    /\ UNCHANGED <<heap, aflag, sl, tp, dpc, stopReq, waitTm, cur, fired, nCancel, nAlert>>
    /\ UNCHANGED notSched

\* time passes: the clock gets past a pending deadline
TimePasses ==
    /\ \E t \in Instants : t > now /\ now' = t
    /\ UNCHANGED <<heap, aflag, sl, tp, dpc, stopReq, waitTm, cur, fired, nCancel, nAlert, nTick>>
    /\ UNCHANGED notSched

\* run_thread: while (!tkn.stop_requested())
DriverTest ==
    /\ dpc = "top"
    /\ dpc' = IF stopReq THEN "done" ELSE "body"
    /\ UNCHANGED <<heap, now, aflag, sl, tp, stopReq, waitTm, cur, fired, nCancel, nAlert, nTick>>
    /\ UNCHANGED notSched

\* request_stop() on the stop source, from any thread: the flag is set and the stop_callback
\* of run_thread runs _cv.notify_all(), without _mx
StopRequest ==
    /\ ~stopReq
    /\ stopReq' = TRUE
    /\ dpc' = notify_all(dpc)
    /\ UNCHANGED <<heap, now, aflag, sl, tp, waitTm, cur, fired, nCancel, nAlert, nTick>>
    /\ UNCHANGED notSched

\* mutated driver: the head of the heap is removed without looking at the clock
DriverLoopEager ==
    /\ dpc = "body"
    /\ LET tm == get_first_scheduled_time(heap)
       IN IF tm # NoTime
          THEN LET r == remove_first(heap)
               IN /\ heap' = r.h
                  /\ cur' = r.out
                  /\ dpc' = "exec"
                  /\ UNCHANGED waitTm
          ELSE /\ dpc' = "wait"
               /\ waitTm' = NoTime
               /\ UNCHANGED <<heap, cur>>
    /\ UNCHANGED <<now, aflag, sl, tp, stopReq, fired, nCancel, nAlert, nTick>>
    /\ UNCHANGED notSched

\* run_thread: the loop body up to the point where _mx is released
DriverLoop ==
    /\ dpc = "body"
    /\ LET tm == get_first_scheduled_time(heap)
       IN IF tm # NoTime
          THEN IF now > tm
               THEN LET r == remove_first(heap)
                    IN /\ heap' = r.h
                       /\ cur' = r.out
                       /\ dpc' = "exec"
                       /\ UNCHANGED waitTm
               ELSE /\ dpc' = "wait"
                    /\ waitTm' = tm
                    /\ UNCHANGED <<heap, cur>>
          ELSE /\ dpc' = "wait"
               /\ waitTm' = NoTime
               /\ UNCHANGED <<heap, cur>>
    /\ UNCHANGED <<now, aflag, sl, tp, stopReq, fired, nCancel, nAlert, nTick>>
    /\ UNCHANGED notSched

\* run_thread: _cv.wait_until(lk, *tm) times out
DriverTimeout ==
    /\ dpc = "wait"
    /\ waitTm # NoTime
    /\ now >= waitTm
    /\ dpc' = "top"
    /\ UNCHANGED <<heap, now, aflag, sl, tp, stopReq, waitTm, cur, fired, nCancel, nAlert, nTick>>
    /\ UNCHANGED notSched

\* run_thread: executor(r), here x() of run_thread(stop_token), then lk.lock()
DriverExec ==
    /\ dpc = "exec"
    /\ sl' = [sl EXCEPT ![cur.res] = "fired"]
    /\ fired' = Append(fired, cur.res)
    /\ cur' = NoItem
    /\ dpc' = "top"
    /\ UNCHANGED <<heap, now, aflag, tp, stopReq, waitTm, nCancel, nAlert, nTick>>
    /\ UNCHANGED notSched

NextSched ==
    \/ \E s \in Sleepers : SleepFor(s)
    \/ \E s \in Flags : SleepAlertable(s)
    \/ \E f \in Flags : SchedAlert(f)
    \/ \E id \in {NullIdent} \cup Flags : SchedCancel(id)
    \/ Tick
    \/ DriverTest
    \/ DriverLoop
    \/ StopRequest
    \/ DriverTimeout
    \/ DriverExec

SpecSched == InitSched /\ [][NextSched]_vars

(***************************************************************************)
(* The scheduler with a driver that keeps running and a clock that keeps   *)
(* advancing: the first NLive sleepers, any number of clock steps.         *)
(***************************************************************************)
NextSchedLive ==
    \/ \E s \in 1..NLive : SleepFor(s)
    \/ \E s \in Flags : SleepAlertable(s)
    \/ \E f \in Flags : SchedAlert(f)
    \/ \E id \in {NullIdent} \cup Flags : SchedCancel(id)
    \/ TimePasses
    \/ DriverTest
    \/ DriverLoop
    \/ StopRequest
    \/ DriverTimeout
    \/ DriverExec

\* the driver thread runs whenever it can, and the clock does not stop before a pending deadline
FairSched ==
    /\ WF_vars(DriverTest)
    /\ WF_vars(DriverLoop)
    /\ WF_vars(DriverTimeout)
    /\ WF_vars(DriverExec)
    /\ WF_vars(TimePasses)

FairSpecSched == InitSched /\ [][NextSchedLive]_vars /\ FairSched

(***************************************************************************)
(* Claims about the scheduler.                                             *)
(***************************************************************************)
\* the driver removes a sleeper for the executor
TakeStep == dpc = "body" /\ dpc' = "exec"

Earliest(item, h) == \A n \in 1..Len(h) : item.timestamp <= h[n].timestamp

\* the sleeper the driver removes is one of the heap, and none left in the heap has a
\* strictly earlier deadline
C20_TakeStep ==
    [][TakeStep =>
          /\ \E n \in 1..Len(heap) : heap[n] = cur'
          /\ Len(heap') = Len(heap) - 1
          /\ Earliest(cur', heap')]_vars

\* when the executor is called, no sleeper pending in the heap has a strictly earlier deadline
C20_Handed == dpc = "exec" => Earliest(cur, heap)

\* the output tests/scheduler.cpp expects
TestOrder == <<6, 2, 4, 5, 1, 3>>

IsPrefix(a, b) == Len(a) <= Len(b) /\ SubSeq(b, 1, Len(a)) = a

\* all sleepers were scheduled at the same instant, and none was cancelled or refused
Together ==
    /\ \E t0 \in {tp[1] - ms[1]} : \A s \in Sleepers : tp[s] # NoTime /\ tp[s] = t0 + ms[s]
    /\ \A s \in Sleepers : sl[s] \in {"sleeping", "fired"}

\* the six sleepers of the test, scheduled together, complete in the order 6, 2, 4, 5, 1, 3
C20_TestOrder == Together => IsPrefix(fired, TestOrder)

\* C20: the scheduler fires in non-decreasing deadline order: whenever the driver hands a
\* sleeper to the executor, no other sleeper pending in the heap has a strictly earlier
\* deadline; six sleepers scheduled together for 1000, 500, 1500, 700, 825, 225 ms
\* (ids 1..6) complete in the order 6, 2, 4, 5, 1, 3
C20_DeadlineOrder == C20_TakeStep /\ [](C20_Handed) /\ [](C20_TestOrder)

\* the six sleepers, scheduled together, have all been fired
C20_Witness == Together /\ fired = TestOrder

(***************************************************************************)
(* PART VII: manual_scheduler (src/coro_scheduler.h).  Single-threaded:    *)
(* the class has no lock.                                                  *)
(***************************************************************************)
InitManual ==
    MutexIdle /\ FutureIdle /\ MultiIdle /\ QueueIdle /\ RingIdle /\ PingIdle /\ GenIdle /\ EachIdle /\ AllIdle /\ DistIdle /\ SchedIdle /\ ManualIdle

CanManual == m_ops < MaxMOps

\* co_await sch.sleep_until(t, id) of sleeper s; the sleepers are numbered in the order in
\* which they are scheduled
ManualSleepUntil(s, t, id) ==
    /\ CanManual
    /\ m_sl[s] = "idle"
    /\ \A r \in 1..(s - 1) : m_sl[r] # "idle"
    /\ m_heap' = schedule_at(m_heap, s, t, id)
    /\ m_sl' = [m_sl EXCEPT ![s] = "sleeping"]
    /\ m_tp' = [m_tp EXCEPT ![s] = t]
    /\ m_ops' = m_ops + 1
    /\ UNCHANGED <<m_time, m_upd, m_out, m_ret>>
    /\ UNCHANGED notManual

\* sch.remove_first(): the caller gets the result object
ManualRemoveFirst ==
    /\ CanManual
    /\ LET r == remove_first(m_heap)
       IN /\ m_heap' = r.h
          /\ IF r.out = NoItem
             THEN UNCHANGED <<m_sl, m_out>>
             ELSE /\ m_sl' = [m_sl EXCEPT ![r.out.res] = "removed"]
                  /\ m_out' = Append(m_out, r.out.res)
    /\ m_ops' = m_ops + 1
    /\ UNCHANGED <<m_time, m_tp, m_upd, m_ret>>
    /\ UNCHANGED notManual

\* sch.cancel(id)
ManualCancel(id) ==
    /\ CanManual
    /\ LET r == remove_by_ident(m_heap, id)
       IN /\ m_heap' = r.h
          /\ m_sl' = IF r.out = NoItem THEN m_sl ELSE [m_sl EXCEPT ![r.out.res] = "canceled"]
    /\ m_ops' = m_ops + 1
    /\ UNCHANGED <<m_time, m_tp, m_upd, m_out, m_ret>>
    /\ UNCHANGED notManual

\* sch.alert(flag) with the flag of identity id: set_time with the reading t of the system clock
ManualAlert(id, t) ==
    /\ CanManual
    /\ id # NullIdent
    /\ m_heap' = set_time(m_heap, id, t)
    /\ LET hit == {m_heap[n].res : n \in {k \in 1..Len(m_heap) : m_heap[k].ident = id}}
       IN /\ m_tp' = [s \in MSleepers |-> IF s \in hit THEN t ELSE m_tp[s]]
          /\ m_upd' = [s \in MSleepers |-> m_upd[s] \/ s \in hit]
    /\ m_ops' = m_ops + 1
    /\ UNCHANGED <<m_time, m_sl, m_out, m_ret>>
    /\ UNCHANGED notManual

\* sch.advance_time_until(target_time)
ManualAdvance(target_time) ==
    /\ CanManual
    /\ LET n == get_first_scheduled_time(m_heap)
       IN IF n = NoTime \/ n > target_time
          THEN /\ m_ret' = 0
               /\ UNCHANGED <<m_heap, m_time, m_sl, m_out>>
          ELSE LET r == remove_first(m_heap)
               IN /\ m_time' = IF target_time >= n THEN target_time ELSE n
                  /\ m_heap' = r.h
                  /\ m_sl' = [m_sl EXCEPT ![r.out.res] = "fired"]
                  /\ m_out' = Append(m_out, r.out.res)
                  /\ m_ret' = r.out.res
    /\ m_ops' = m_ops + 1
    /\ UNCHANGED <<m_tp, m_upd>>
    /\ UNCHANGED notManual

NextManual ==
    \/ \E s \in MSleepers, t \in Times, id \in MIdents : ManualSleepUntil(s, t, id)
    \/ ManualRemoveFirst
    \/ \E id \in MIdents : ManualCancel(id)
    \/ \E id \in MIdents, t \in Times : ManualAlert(id, t)
    \/ \E target_time \in Times : ManualAdvance(target_time)

SpecManual == InitManual /\ [][NextManual]_vars

(***************************************************************************)
(* Claims about generic_scheduler, checked on the manual scheduler.        *)
(***************************************************************************)
\* the place of sleeper s in the order of removal, 0 when it has not been removed
OutPos(s) ==
    IF \E n \in 1..Len(m_out) : m_out[n] = s
    THEN CHOOSE n \in 1..Len(m_out) : m_out[n] = s
    ELSE 0

\* sleepers a and b were scheduled, a first, for the same time point, which was not changed
Tied(a, b) ==
    /\ a < b
    /\ m_tp[a] # NoTime
    /\ m_tp[a] = m_tp[b]
    /\ ~m_upd[a] /\ ~m_upd[b]

\* C21 (as stated): of two sleepers scheduled for the same time point, the one scheduled
\* first leaves the heap first
C21_TieOrder ==
    \A a, b \in MSleepers :
        (Tied(a, b) /\ OutPos(b) # 0 /\ m_sl[a] # "canceled") =>
            (OutPos(a) # 0 /\ OutPos(a) < OutPos(b))

\* C21 (amended): the sleeper remove_first takes has the earliest deadline of the heap: sleepers
\* with equal deadlines all leave before any later deadline, in an order the arrangement of
\* the heap decides
C21_EarliestFirst ==
    [][m_out' # m_out =>
          \E n \in 1..Len(m_heap) :
              /\ m_heap[n].res = m_out'[Len(m_out')]
              /\ Earliest(m_heap[n], m_heap')
              /\ Len(m_heap') = Len(m_heap) - 1]_vars

\* two sleepers with the same deadline left the heap, the one scheduled later first
C21_Witness ==
    \E a, b \in MSleepers :
        /\ Tied(a, b)
        /\ OutPos(b) # 0
        /\ OutPos(b) < OutPos(a)

(***************************************************************************)
(* More claims about the scheduler.                                        *)
(***************************************************************************)
InHeap(s) == \E n \in 1..Len(heap) : heap[n].res = s

\* every item of the heap is the one pending sleep of a sleeper, with its current deadline;
\* a sleeper is sleeping exactly while it is in the heap or on its way to the executor
C22_OneItem ==
    /\ \A n, k \in 1..Len(heap) : heap[n].res = heap[k].res => n = k
    /\ \A n \in 1..Len(heap) :
          /\ heap[n].res \in Sleepers
          /\ heap[n].timestamp = tp[heap[n].res]
    /\ \A s \in Sleepers :
          sl[s] = "sleeping" <=> (InHeap(s) \/ (dpc = "exec" /\ cur.res = s))
    /\ dpc = "exec" => (cur.res \in Sleepers /\ ~InHeap(cur.res) /\ cur.timestamp < now)

\* the executor has resolved every sleeper at most once, and none that was cancelled
C22_FiredOnce ==
    /\ \A n, k \in 1..Len(fired) : fired[n] = fired[k] => n = k
    /\ \A s \in Sleepers : sl[s] = "fired" <=> \E n \in 1..Len(fired) : fired[n] = s

\* the driver removes a sleeper only when the clock is past its current deadline, and a sleep
\* that has ended (fired, cancelled, refused) stays ended
C22_Steps ==
    [][/\ TakeStep => (cur'.timestamp = tp[cur'.res] /\ now > tp[cur'.res])
       /\ \A s \in Sleepers :
             sl[s] \in {"fired", "canceled", "refused"} => sl'[s] = sl[s]]_vars

\* C22: every scheduled sleeper leaves the heap exactly once (fired by the driver, cancelled, or
\* fired after an alert), the driver never hands a sleeper to the executor before its
\* current deadline, and no sleeper's result is fulfilled twice
C22_LeavesOnce == [](C22_OneItem) /\ [](C22_FiredOnce) /\ C22_Steps

\* a sleeper was cancelled, the alerted one and another one were fired
C22_Witness ==
    /\ nAlert = 1
    /\ \E s \in Sleepers : sl[s] = "canceled"
    /\ \E s \in Flags : sl[s] = "fired" /\ tp[s] # ms[s]
    /\ Len(fired) >= 2

\* alert(flag) sets the flag, resets the deadline of the sleep with identity &flag to now and
\* takes the driver out of its wait
C23_AlertStep ==
    [][\A f \in Flags :
          SchedAlert(f) =>
              /\ aflag'[f]
              /\ \A n \in 1..Len(heap') : heap'[n].ident = f => heap'[n].timestamp = now
              /\ Len(heap') = Len(heap)
              /\ dpc' # "wait"]_vars

\* an alertable sleep awaited while the flag is set resolves at once and is not scheduled
C23_RefusedStep ==
    [][\A s \in Flags :
          (SleepAlertable(s) /\ aflag[s]) => (heap' = heap /\ sl'[s] = "refused")]_vars

\* while the flag is set, a sleep with identity &flag that is in the heap is already due
C23_Due ==
    \A n \in 1..Len(heap) :
        (heap[n].ident \in Flags /\ aflag[heap[n].ident]) => heap[n].timestamp <= now

\* a sleep with identity &flag is in the heap
AlertableInHeap(f) == \E n \in 1..Len(heap) : heap[n].ident = f

\* the running driver fires the alerted sleeper
C23_Fired ==
    \A f \in Flags : (aflag[f] /\ AlertableInHeap(f)) ~> (~AlertableInHeap(f) \/ stopReq)

\* C23: after alert(flag) an alertable sleep on that flag never waits for its deadline: a
\* sleeper already scheduled gets its deadline reset to now and is fired by the running
\* driver, and an alertable sleep awaited afterwards resolves immediately without being
\* scheduled
C23_Alerted == C23_AlertStep /\ C23_RefusedStep /\ [](C23_Due) /\ C23_Fired

\* the alerted sleeper was fired with the deadline alert gave it, long before its own
C23_Witness ==
    \E s \in Flags :
        /\ aflag[s]
        /\ sl[s] = "fired"
        /\ tp[s] < ms[s]
        /\ now < ms[s]

\* C24: every sleeper scheduled while the driver loop is running is eventually handed to the
\* executor once its deadline has passed, unless it is removed or the driver is stopped
C24_EventuallyFired ==
    \A s \in Sleepers : (InHeap(s) /\ now > tp[s]) ~> (~InHeap(s) \/ stopReq)

\* the driver is blocked in _cv.wait(lk) only while the heap is empty, and in
\* _cv.wait_until(lk, tm) only while no pending deadline is earlier than tm
C24_Signalled ==
    dpc = "wait" =>
        IF waitTm = NoTime
        THEN heap = <<>>
        ELSE \A n \in 1..Len(heap) : waitTm <= heap[n].timestamp

\* C25: once stop is requested on the token of run_thread, run_thread eventually returns, for
\* every interleaving of the request with the driver loop
C25_Returns == stopReq ~> dpc = "done"

\* a stop request never leaves the driver blocked in the untimed _cv.wait(lk)
C25_NotBlocked == ~(stopReq /\ dpc = "wait" /\ waitTm = NoTime)

(***************************************************************************)
(* PART VIII: when_all (src/coroutine.h).  The owner adds awaiters and     *)
(* then awaits; each added awaiter completes on a thread of its own.       *)
(***************************************************************************)
InitAll ==
    MutexIdle /\ FutureIdle /\ MultiIdle /\ QueueIdle /\ RingIdle /\ PingIdle /\ GenIdle /\ EachIdle /\ DistIdle /\ SchedIdle /\ ManualIdle
        /\ AllIdle

\* mutated counter: the frame also fires on the last but one decrement
fires_early(c) == c <= 2

\* counter::do_resume: count.fetch_sub(1) == 1
fires(c) == c = 1

\* counter::do_resume on count c, Result r, owner at p, resolved o times: r() resolves the
\* awaitable and hands back the owner's handle; on an empty Result r() does nothing
do_resume(c, r, p, o) ==
    IF fires(c) /\ r = "set"
    THEN [count |-> c - 1, r |-> "used", pc |-> "resumed", out |-> o + 1]
    ELSE [count |-> c - 1, r |-> r, pc |-> p, out |-> o]

\* an awaiter completes before it is added
ReadyEarly(a) ==
    /\ a >= a_next
    /\ a_pc = "adding"
    /\ a_aw[a] = "new"
    /\ a_aw' = [a_aw EXCEPT ![a] = "ready"]
    /\ UNCHANGED <<a_count, a_r, a_next, a_pc, a_out>>
    /\ UNCHANGED notAll

\* when_all::add(awt)
AllAdd ==
    /\ a_pc = "adding"
    /\ a_next <= NAw
    /\ IF a_aw[a_next] = "ready"
       THEN /\ a_aw' = [a_aw EXCEPT ![a_next] = "skipped"]
            /\ UNCHANGED a_count
       ELSE /\ a_count' = a_count + 1
            /\ a_aw' = [a_aw EXCEPT ![a_next] = "pending"]
    /\ a_next' = a_next + 1
    /\ UNCHANGED <<a_r, a_pc, a_out>>
    /\ UNCHANGED notAll

\* an added awaiter completes and resumes its consumer, the counting frame
AllComplete(a) ==
    /\ a_aw[a] = "pending"
    /\ a_aw' = [a_aw EXCEPT ![a] = "done"]
    /\ LET d == do_resume(a_count, a_r, a_pc, a_out)
       IN /\ a_count' = d.count
          /\ a_r' = d.r
          /\ a_pc' = d.pc
          /\ a_out' = d.out
    /\ UNCHANGED a_next
    /\ UNCHANGED notAll

\* co_await of the when_all: start() reads the counter
AllStart ==
    /\ a_pc = "adding"
    /\ IF a_count = 1
       THEN /\ a_pc' = "resumed"
            /\ a_out' = a_out + 1
       ELSE /\ a_pc' = "start"
            /\ UNCHANGED a_out
    /\ UNCHANGED <<a_count, a_r, a_aw, a_next>>
    /\ UNCHANGED notAll

\* the callback of the awaitable: _cnt.r = std::move(r)
AllPublish ==
    /\ a_pc = "start"
    /\ a_r' = "set"
    /\ a_pc' = "published"
    /\ UNCHANGED <<a_count, a_aw, a_next, a_out>>
    /\ UNCHANGED notAll

\* the callback of the awaitable: _cnt.do_resume(), then the owner is suspended
AllCheck ==
    /\ a_pc = "published"
    /\ LET d == do_resume(a_count, a_r, "suspended", a_out)
       IN /\ a_count' = d.count
          /\ a_r' = d.r
          /\ a_pc' = d.pc
          /\ a_out' = d.out
    /\ UNCHANGED <<a_aw, a_next>>
    /\ UNCHANGED notAll

NextAll ==
    \/ \E a \in Awaiters : ReadyEarly(a)
    \/ AllAdd
    \/ \E a \in Awaiters : AllComplete(a)
    \/ AllStart
    \/ AllPublish
    \/ AllCheck

SpecAll == InitAll /\ [][NextAll]_vars

AllPending == \E a \in Awaiters : a_aw[a] = "pending"

\* the awaitable is not resolved while an added awaiter is pending
C26_NeverEarly == a_out > 0 => ~AllPending

\* once the owner awaits and no added awaiter is pending, the awaitable is resolved, once
C26_Resolved == (a_pc \in {"suspended", "resumed"} /\ ~AllPending) => a_out = 1

\* co_await with nothing pending completes at once
C26_Immediate == [][(AllStart /\ ~AllPending) => (a_out' = 1 /\ a_pc' = "resumed")]_vars

InitEach ==
    MutexIdle /\ FutureIdle /\ MultiIdle /\ QueueIdle /\ RingIdle /\ PingIdle /\ GenIdle /\ DistIdle /\ SchedIdle /\ ManualIdle
        /\ AllIdle /\ EachIdle

\* mutated resumed(): the result slot is the slot of the awaiter
wridx_own(free, idx) == idx

\* resumed(): wridx = _free_slot.fetch_add(1)
wridx(free, idx) == free

\* resumed(): st = _finished[wridx].exchange(idx + 2); with st == 1 the owner is awaiting:
\* ++_nx and _r(idx)
exchange(w, idx) ==
    /\ e_finished' = [e_finished EXCEPT ![w] = idx + 2]
    /\ IF e_finished[w] = 1
       THEN /\ e_nx' = e_nx + 1
            /\ e_out' = Append(e_out, idx)
            /\ e_r' = "none"
            /\ e_pc' = "idle"
       ELSE UNCHANGED <<e_nx, e_out, e_r, e_pc>>

\* an awaiter completes before the constructor adds it
EachReadyEarly(i) ==
    /\ e_pc = "ctor"
    /\ i >= e_added
    /\ e_aw[i] = "new"
    /\ e_aw' = [e_aw EXCEPT ![i] = "ready"]
    /\ UNCHANGED <<e_finished, e_free_slot, e_nx, e_cnt, e_r, e_w, e_added, e_pc, e_out, e_order>>
    /\ UNCHANGED notEach

\* when_each::add(awts[i], i) in the constructor; after the last one the owner goes on
EachAdd ==
    /\ e_pc = "ctor"
    /\ LET i == e_added
       IN IF e_aw[i] = "ready"
          THEN LET w == wridx(e_free_slot, i)
               IN /\ e_free_slot' = e_free_slot + 1
                  /\ e_finished' = [e_finished EXCEPT ![w] = i + 2]
                  /\ e_w' = [e_w EXCEPT ![i] = w]
                  /\ e_aw' = [e_aw EXCEPT ![i] = "done"]
                  /\ e_order' = Append(e_order, i)
          ELSE /\ e_aw' = [e_aw EXCEPT ![i] = "pending"]
               /\ UNCHANGED <<e_finished, e_free_slot, e_w, e_order>>
    /\ e_added' = e_added + 1
    /\ e_pc' = IF e_added + 1 = NEach THEN "idle" ELSE "ctor"
    /\ UNCHANGED <<e_nx, e_cnt, e_r, e_out>>
    /\ UNCHANGED notEach

\* a pending awaiter completes and resumes its slot: resumed() up to the fetch_add
EachTake(i) ==
    /\ e_aw[i] = "pending"
    /\ e_aw' = [e_aw EXCEPT ![i] = "taken"]
    /\ e_w' = [e_w EXCEPT ![i] = wridx(e_free_slot, i)]
    /\ e_free_slot' = e_free_slot + 1
    /\ e_order' = Append(e_order, i)
    /\ UNCHANGED <<e_finished, e_nx, e_cnt, e_r, e_added, e_pc, e_out>>
    /\ UNCHANGED notEach

\* resumed() from the exchange on
EachStore(i) ==
    /\ e_aw[i] = "taken"
    /\ e_aw' = [e_aw EXCEPT ![i] = "done"]
    /\ exchange(e_w[i], i)
    /\ UNCHANGED <<e_free_slot, e_cnt, e_w, e_added, e_order>>
    /\ UNCHANGED notEach

\* co_await of the when_each: get_awaitable()
EachGet ==
    /\ e_pc = "idle"
    /\ IF e_nx = e_cnt
       THEN /\ e_pc' = "end"
            /\ UNCHANGED <<e_nx, e_out>>
       ELSE LET v == e_finished[e_nx]
            IN IF v # 0
               THEN /\ e_nx' = e_nx + 1
                    /\ e_out' = Append(e_out, v - 2)
                    /\ UNCHANGED e_pc
               ELSE /\ e_pc' = "cb"
                    /\ UNCHANGED <<e_nx, e_out>>
    /\ UNCHANGED <<e_finished, e_free_slot, e_cnt, e_r, e_aw, e_w, e_added, e_order>>
    /\ UNCHANGED notEach

\* the callback of the awaitable: _r = std::move(r); v = _finished[_nx].exchange(1)
EachCallback ==
    /\ e_pc = "cb"
    /\ LET v == e_finished[e_nx]
       IN /\ e_finished' = [e_finished EXCEPT ![e_nx] = 1]
          /\ IF v # 0
             THEN /\ e_nx' = e_nx + 1
                  /\ e_out' = Append(e_out, v - 2)
                  /\ e_r' = "none"
                  /\ e_pc' = "idle"
             ELSE /\ e_r' = "set"
                  /\ e_pc' = "waiting"
                  /\ UNCHANGED <<e_nx, e_out>>
    /\ UNCHANGED <<e_free_slot, e_cnt, e_aw, e_w, e_added, e_order>>
    /\ UNCHANGED notEach

NextEach ==
    \/ \E i \in EachIdx : EachReadyEarly(i)
    \/ EachAdd
    \/ \E i \in EachIdx : EachTake(i)
    \/ \E i \in EachIdx : EachStore(i)
    \/ EachGet
    \/ EachCallback

SpecEach == InitEach /\ [][NextEach]_vars

\* the co_awaits return the indices in the order of completion
C27_InOrder == IsPrefix(e_out, e_order)

\* a suspended owner waits on the slot of the next completion, whose awaiter has not stored yet
C27_Awaited ==
    e_pc = "waiting" =>
        /\ e_r = "set"
        /\ e_finished[e_nx] = 1
        /\ e_free_slot > e_nx => \E i \in EachIdx : e_aw[i] = "taken" /\ e_w[i] = e_nx

\* _nx counts the indices returned; after the last one nothing is pending, and only then
C27_Counted ==
    /\ e_nx = Len(e_out)
    /\ e_pc = "end" => (e_nx = e_cnt /\ Len(e_out) = NEach)
    /\ Len(e_out) = NEach => \A i \in EachIdx : \E n \in 1..NEach : e_out[n] = i

\* an index that is complete and next in line is returned by the co_await that asks for it
C27_Step ==
    [][(EachGet /\ e_nx < Len(e_order) /\ e_finished[e_nx] > 1)
            => e_out' = Append(e_out, e_order[e_nx + 1])]_vars

InitGen ==
    /\ MutexIdle /\ FutureIdle /\ MultiIdle /\ QueueIdle /\ RingIdle /\ PingIdle /\ DistIdle /\ SchedIdle /\ ManualIdle
    /\ AllIdle /\ EachIdle
    /\ g_mode \in GenModes
    /\ g_count \in 0..NSteps
    /\ g_frame = "initial"
    /\ g_a = 1
    /\ g_b = 1
    /\ g_i = 0
    /\ g_target = 0
    /\ g_n = 0
    /\ g_state = "none"
    /\ g_owner = FALSE
    /\ g_seen = <<>>
    /\ g_fault = FALSE

\* co_yield a: yield_value stores a in the target, yield_awaiter::await_suspend wakes the
\* consumer and clears _target
co_yield(a) ==
    /\ g_frame' = "yielded"
    /\ g_state' = "value"
    /\ g_seen' = Append(g_seen, a)
    /\ g_owner' = FALSE
    /\ g_target' = 0

\* the body returns: return_void, then final_suspend's yield_awaiter: wakeup() drops the
\* unresolved target and wakes the consumer
co_return ==
    /\ g_frame' = "done"
    /\ g_state' = "no_value"
    /\ g_seen' = Append(g_seen, Empty)
    /\ g_owner' = FALSE
    /\ g_target' = 0

\* the head of the loop 'for (...; i < count; ...)' with the locals a, b, i
loop_head(a, b, i, k) ==
    /\ g_a' = a
    /\ g_b' = b
    /\ g_i' = i
    /\ IF i < g_count
       THEN IF g_mode.body = "async_fibo"
            THEN /\ g_frame' = "awaiting"
                 /\ g_state' = "pending"
                 /\ g_owner' = TRUE
                 /\ g_target' = k
                 /\ UNCHANGED g_seen
            ELSE co_yield(a)
       ELSE co_return

\* mutated body: b is not added to a
fibo_same(k) ==
    IF g_frame = "initial"
    THEN loop_head(g_a, g_b, g_i, k)
    ELSE loop_head(g_b, g_b, g_i + 1, k)

\* the frame, bound to invocation k, is resumed at initial_suspend or after a co_yield:
\* c = a + b; a = b; b = c; ++i
fibo(k) ==
    IF g_frame = "initial"
    THEN loop_head(g_a, g_b, g_i, k)
    ELSE loop_head(g_b, g_a + g_b, g_i + 1, k)

\* iterator::operator== with end(): the range-for is over at the first step without a value
at_end == g_mode.drive = "iterator" /\ g_seen # <<>> /\ g_seen[Len(g_seen)] = Empty

\* gen() and its co_await / wait(): the callback of the awaitable calls next(r), which leaves
\* r to its destructor when the body is done and else binds it and resumes the frame
GenInvoke ==
    /\ ~g_fault
    /\ ~g_owner
    /\ g_frame \in {"initial", "yielded", "done"}
    /\ g_n < MaxInv
    /\ ~at_end
    /\ g_n' = g_n + 1
    /\ IF g_frame = "done"
       THEN /\ g_state' = "no_value"
            /\ g_seen' = Append(g_seen, Empty)
            /\ UNCHANGED <<g_frame, g_a, g_b, g_i, g_target, g_owner>>
       ELSE fibo(g_n + 1)
    /\ UNCHANGED <<g_mode, g_count, g_fault>>
    /\ UNCHANGED notGen

\* the operation the body awaits completes (thread_sleep: p() on a thread of its own) and
\* the frame runs on to its co_yield
GenWake ==
    /\ ~g_fault
    /\ g_frame = "awaiting"
    /\ co_yield(g_a)
    /\ UNCHANGED <<g_mode, g_count, g_a, g_b, g_i, g_n, g_fault>>
    /\ UNCHANGED notGen

\* the generator is dropped: deleter destroys the frame; an awaitable the body awaits is
\* destroyed while awaited, and its destructor throws invalid_state (std::terminate)
GenDrop ==
    /\ ~g_fault
    /\ g_frame # "destroyed"
    /\ g_frame' = "destroyed"
    /\ g_fault' = (g_frame = "awaiting" /\ g_mode.inner = "awaitable")
    /\ UNCHANGED <<g_mode, g_count, g_a, g_b, g_i, g_target, g_n, g_state, g_owner, g_seen>>
    /\ UNCHANGED notGen

NextGen ==
    \/ GenInvoke
    \/ GenWake
    \/ GenDrop

SpecGen == InitGen /\ [][NextGen]_vars

\* the Fibonacci numbers 1, 1, 2, 3, 5, ...
RECURSIVE Fib(_)
Fib(n) == IF n <= 2 THEN 1 ELSE Fib(n - 1) + Fib(n - 2)

\* every invocation that is over resolved with the next value the body yields, and with Empty
\* from the invocation during which the body returns on
C28_Sequence ==
    \A n \in 1..Len(g_seen) : g_seen[n] = IF n <= g_count THEN Fib(n) ELSE Empty

\* one result per invocation: all of them but an outstanding one are resolved
C28_OnePerInvocation == Len(g_seen) = g_n - (IF g_owner THEN 1 ELSE 0)

\* the sequence expected by src/tests/generator.cpp
C28_TestSequence ==
    (g_count = 10 /\ Len(g_seen) >= 10)
        => SubSeq(g_seen, 1, 10) = <<1, 1, 2, 3, 5, 8, 13, 21, 34, 55>>

\* C28: successive invocations of a generator resolve with the values the body yields, one per
\* invocation and in yield order, and with Empty from the invocation during which the body
\* returns on, whether the body and the driver are synchronous or asynchronous
C28_Generator == [](C28_Sequence /\ C28_OnePerInvocation /\ C28_TestSequence)

\* async_fibo(10) driven by co_await: ten values, then Empty twice
C28_Witness ==
    /\ g_mode.body = "async_fibo" /\ g_mode.drive = "co_await"
    /\ g_count = 10
    /\ g_seen = <<1, 1, 2, 3, 5, 8, 13, 21, 34, 55, Empty, Empty>>

\* fibo(10) driven by the iterator: the same ten values, and the loop ends at the Empty
C28_WitnessSync ==
    /\ g_mode.body = "fibo" /\ g_mode.drive = "iterator"
    /\ g_count = 10
    /\ g_seen = <<1, 1, 2, 3, 5, 8, 13, 21, 34, 55, Empty>>

\* C29: after the generator is dropped, an invocation that was outstanding is resolved to
\* Empty and its consumer is woken: no consumer of a step stays blocked
C29_NoneBlocked == g_frame = "destroyed" => (~g_owner /\ g_state # "pending")

\* the frame of the suspended task is destroyed
DestroyStep == task = "suspended" /\ task' = "destroyed"

\* the destruction of the frame of a task bound to the future f: an unresolved f becomes
\* no_value, a resolved f keeps its state, and the consumer registered on f is resumed once
\* and finds that state
C30_Step(f) ==
    /\ state'[f] = IF await_ready(state[f]) THEN state[f] ELSE "no_value"
    /\ owner'[f] = NoOne
    /\ resolved'[f]
    /\ owner[f] # NoOne =>
        /\ resumed'[owner[f]] = resumed[owner[f]] + 1
        /\ seen'[owner[f]] = await_resume(state'[f])
    /\ ~fault'

\* the task runs to its end bound to a Result: the frame is destroyed at final_suspend
FinishStep == task # "finished" /\ task' = "finished" /\ target' # NoFut

\* the future the task resolved holds the value or the error after the frame is gone, and a
\* consumer resumed in that step finds it
C30_Kept ==
    /\ state'[target'] \in {"value", "exception"}
    /\ owner'[target'] = NoOne
    /\ \A c \in Consumers :
        (awaits'[c] = target' /\ resumed'[c] # resumed[c]) => seen'[c] \in {"value", "error"}
    /\ ~fault'

\* C30: destroying the frame of a task that is bound to a Result resolves the bound future to
\* Empty if it is not yet resolved and wakes its consumer; a future that the task had already
\* resolved keeps its value or error
C30_DestroyResolves ==
    /\ [][(DestroyStep /\ target # NoFut /\ life[target] = "alive") => C30_Step(target)]_vars
    /\ [][FinishStep => C30_Kept]_vars

\* a started task was destroyed while suspended: its consumer was resumed and found Empty
C30_Witness ==
    /\ task = "destroyed" /\ runs = 1 /\ target # NoFut
    /\ life[target] = "alive" /\ state[target] = "no_value"
    /\ awaits[1] = target /\ resumed[1] = 1 /\ seen[1] = "canceled"
    /\ \A c \in Consumers \ {1} : awaits[c] = NoFut
    /\ ~fault

\* the body of the task runs in this step: the task is started (by co_await, set_callback
\* or the destructor of its future) or resumed
StartStep == task = "initial" /\ runs' = runs + 1

BodyStep == StartStep \/ \E o \in TaskOutcomes : TaskResume(o)

\* what co_await is_detached() gives in a step in which the body runs: the body has gone on
\* to await_resume; the answer is yes exactly when the task has no bound Result, which for a
\* start is the start by the destructor of the future; a consumer registered on the future
\* the Result is bound to gets the answer no
C31_Step ==
    BodyStep =>
        /\ isdet' \in {"yes", "no"}
        /\ isdet' = "yes" <=> target' = NoFut
        /\ StartStep => (isdet' = "yes" <=> detached' = detached + 1)
        /\ isdet' = "no" <=> \E c \in Consumers : target' # NoFut /\ awaits'[c] = target'

\* C31: inside a task, co_await is_detached() never suspends the task and returns true
\* exactly when the task has no bound Result (it was started by dropping its future), and
\* false when a consumer is awaiting its result
C31_IsDetached ==
    /\ [][C31_Step]_vars
    /\ []((task # "none" /\ runs > 0) => isdet # "none")
    /\ [](runs = 0 => isdet = "none")

\* the task was started by co_await, was told that it is not detached, has returned a value
\* and the awaiting coroutine has been resumed with it
C31_Witness ==
    \E c \in Coros :
        /\ isdet = "no" /\ task = "finished" /\ detached = 0
        /\ target # NoFut /\ awaits[c] = target
        /\ resumed[c] = 1 /\ seen[c] = "value"

\* the task was started by the destructor of its future and was told that it is detached
C31_WitnessDetached == isdet = "yes" /\ detached = 1 /\ task = "finished" /\ target = NoFut

(***************************************************************************)
(* PART XI: symmetric transfer (src/coroutine.h).  main calls              *)
(* consumer(n).wait(); the consumer runs n times co_await producer(i); the *)
(* producer returns a value or throws, at once or after a suspension that  *)
(* a driver ends.                                                          *)
(***************************************************************************)
InitPing ==
    /\ MutexIdle /\ FutureIdle /\ MultiIdle /\ QueueIdle /\ RingIdle /\ DistIdle /\ SchedIdle /\ ManualIdle
    /\ AllIdle /\ EachIdle /\ GenIdle
    /\ ev = NoEvent
    /\ p_n \in 1..MaxIter
    /\ p_i = 0
    /\ p_stack = <<>>
    /\ p_cons = "initial"
    /\ p_prod = "none"
    /\ p_state = "none"
    /\ p_owner = [f \in {"main", "shared"} |-> NoFrame]

Top(st) == IF st = <<>> THEN NoFrame ELSE st[Len(st)]

\* the frame on top is suspended (or destroyed) and its resume() call returns to its caller
return_to_resumer(st) == SubSeq(st, 1, Len(st) - 1)

\* coroutine_handle::resume() called from running code: a nested call
resume_nested(st, h) == IF h = NoFrame THEN st ELSE Append(st, h)

\* the handle is resumed by a call made inside await_suspend (p.resume(), as in the finisher
\* compiled for the MSVC debug build)
transfer_by_call(st, h) == IF h = NoFrame THEN return_to_resumer(st) ELSE Append(st, h)

\* await_suspend returns prepared_coro::symmetric_transfer(): the frame on top is suspended
\* and h is resumed in its place; an empty prepared_coro gives noop_coroutine, whose
\* resumption returns to the resumer
symmetric_transfer(st, h) ==
    IF h = NoFrame THEN return_to_resumer(st) ELSE [st EXCEPT ![Len(st)] = h]

\* awaitable::wait() on the consumer's future: await_suspend(sync.get_handle()) starts the
\* task and the handle it returns is resumed by an ordinary call
PingWait ==
    /\ p_cons = "initial"
    /\ p_stack = <<>>
    /\ p_owner' = [p_owner EXCEPT !["main"] = "sync"]
    /\ p_cons' = "running"
    /\ p_stack' = resume_nested(p_stack, "consumer")
    /\ UNCHANGED <<p_n, p_i, p_prod, p_state>>
    /\ UNCHANGED notPing

\* the consumer: co_await producer(i); await_ready is false (state coro), await_suspend
\* registers the consumer, start() binds the Result and returns the producer's handle
PingAwait ==
    /\ Top(p_stack) = "consumer"
    /\ p_cons = "running"
    /\ p_i < p_n
    /\ p_owner' = [p_owner EXCEPT !["shared"] = "consumer"]
    /\ p_state' = "coro"
    /\ p_cons' = "awaiting"
    /\ p_prod' = "running"
    /\ p_stack' = symmetric_transfer(p_stack, "producer")
    /\ UNCHANGED <<p_n, p_i>>
    /\ UNCHANGED notPing

\* the producer: co_return or an exception: the future is resolved, finisher::await_suspend
\* takes the owner out by wakeup(), destroys the frame and returns the owner's handle; the
\* consumer goes on with await_resume
PingReturn(o) ==
    /\ Top(p_stack) = "producer"
    /\ p_prod \in {"running", "resumed"}
    /\ p_state' = IF o = "return" THEN "value" ELSE "exception"
    /\ p_owner' = [p_owner EXCEPT !["shared"] = NoFrame]
    /\ p_prod' = "none"
    /\ p_stack' = symmetric_transfer(p_stack, p_owner["shared"])
    /\ p_cons' = "running"
    /\ p_i' = p_i + 1
    /\ UNCHANGED p_n
    /\ UNCHANGED notPing

\* the producer suspends on something a driver will resolve: its resume() call returns
PingSuspend ==
    /\ Top(p_stack) = "producer"
    /\ p_prod = "running"
    /\ p_prod' = "suspended"
    /\ p_stack' = return_to_resumer(p_stack)
    /\ UNCHANGED <<p_n, p_i, p_cons, p_state, p_owner>>
    /\ UNCHANGED notPing

\* the driver resumes the suspended producer from its own stack
PingResume ==
    /\ p_prod = "suspended"
    /\ p_stack = <<>>
    /\ p_prod' = "resumed"
    /\ p_stack' = resume_nested(p_stack, "producer")
    /\ UNCHANGED <<p_n, p_i, p_cons, p_state, p_owner>>
    /\ UNCHANGED notPing

\* the consumer returns after its last iteration: finisher::await_suspend hands over to the
\* sync_frame that wait() registered
PingFinish ==
    /\ Top(p_stack) = "consumer"
    /\ p_cons = "running"
    /\ p_i = p_n
    /\ p_cons' = "finished"
    /\ p_owner' = [p_owner EXCEPT !["main"] = NoFrame]
    /\ p_stack' = symmetric_transfer(p_stack, p_owner["main"])
    /\ UNCHANGED <<p_n, p_i, p_prod, p_state>>
    /\ UNCHANGED notPing

\* sync_frame::do_resume sets the signal and returns
PingSync ==
    /\ Top(p_stack) = "sync"
    /\ p_stack' = return_to_resumer(p_stack)
    /\ UNCHANGED <<p_n, p_i, p_cons, p_prod, p_state, p_owner>>
    /\ UNCHANGED notPing

NextPing ==
    \/ PingWait
    \/ PingAwait
    \/ \E o \in {"return", "throw"} : PingReturn(o)
    \/ PingSuspend
    \/ PingResume
    \/ PingFinish
    \/ PingSync

SpecPing == InitPing /\ [][NextPing]_vars

\* a switch from the producer to the consumer, and one from the consumer to the producer
ToConsumer == Top(p_stack) = "producer" /\ Top(p_stack') = "consumer"

ToProducer == Top(p_stack) = "consumer" /\ Top(p_stack') = "producer"

\* C32: in a ping-pong of two tasks through a future every switch between producer and
\* consumer is a tail call: the frame to resume takes the place of the frame that
\* suspends, so the number of nested resume() calls does not grow with the number of
\* iterations: it is never more than one
C32_TailCall ==
    /\ [][(ToConsumer \/ ToProducer) => Len(p_stack') = Len(p_stack)]_vars
    /\ [](Len(p_stack) <= 1)

\* the consumer has completed MaxIter iterations, the last after a suspension of the
\* producer, and is running with one resume() call on the stack
C32_Witness ==
    /\ p_n = MaxIter /\ p_i = MaxIter
    /\ p_cons = "running" /\ p_prod = "none" /\ p_state = "value"
    /\ p_stack = <<"consumer">>

(***************************************************************************)
(* Claims about the rounds of multi_lock.                                  *)
(***************************************************************************)
\* multi_lock k has a request registered on mutex m (pushed on _requests or moved to _queue)
Parked(k, m) ==
    \/ \E n \in 1..Len(mxRequests[m]) : mxRequests[m][n] = k
    \/ \E n \in 1..Len(mxQueue[m]) : mxQueue[m][n] = k

\* C33: when the try_lock round of a multi_lock has failed on an entry of its list, the
\* multi_lock owns nothing, its rotation start is the index of that entry, and the
\* asynchronous wait it registers is on the mutex of that entry (never on another one or
\* on a null entry)
C33_WaitsOnFailed ==
    \A k \in MLs :
        (mlFailed[k] # NoIdx /\ mlFuture[k] = "pending") =>
            /\ ~mlFault
            /\ \A a \in 1..NLock : ~owns[k][a]
            /\ first[k] = mlFailed[k]
            /\ locking[k][first[k] + 1] # Null
            /\ \A m \in Mtx : Parked(k, m) => m = locking[k][mlFailed[k] + 1]

\* the wait is registered on the entry at the rotation start
C33_WaitsOnFirst ==
    \A k \in MLs, m \in Mtx : Parked(k, m) => m = locking[k][first[k] + 1]

\* C34 (one step): a multi_lock that registers a wait in this step owns nothing afterwards
C34_Step ==
    \A k \in MLs, m \in Mtx :
        (~Parked(k, m) /\ Parked(k, m)') => \A a \in 1..NLock : ~owns'[k][a]

\* a multi_lock with a registered wait owns no mutex
C34_Parked ==
    \A k \in MLs, m \in Mtx : Parked(k, m) => \A a \in 1..NLock : ~owns[k][a]

\* C34: while a multi_lock is suspended in an asynchronous wait for one mutex it holds the
\* ownership of no other mutex: what it acquired in a failed round is released before the
\* wait is registered
C34_NoHoldAndWait == [](C34_Parked) /\ [][C34_Step]_vars

\* a multi_lock whose round failed in lock_complete, after the ownership it had waited for
\* arrived (the failed entry is not the one at the rotation start), has given that ownership
\* back, is parked again and owns nothing
C34_Witness ==
    \E k \in MLs, m \in Mtx :
        /\ Parked(k, m) /\ mlFailed[k] # NoIdx /\ mlFailed[k] # first[k]
        /\ \A a \in 1..NLock : ~owns[k][a]
        /\ ~mlFault

(***************************************************************************)
(* Claims about the wait lists and the lock of coro_queue.                 *)
(***************************************************************************)
\* C35: a pusher is parked only while the ring is full and a popper only while the ring is
\* empty, so a pusher and a popper are never parked at the same time
C35_ParkedOnlyWhenBlocked ==
    /\ \A i \in Pushers : pph[i] = "parked" => qFront - qBack >= Cap
    /\ \A j \in Poppers : cph[j] = "parked" => qFront - qBack = 0
    /\ ~\E i \in Pushers, j \in Poppers : pph[i] = "parked" /\ cph[j] = "parked"

\* C36: every read or modification of the ring, of the two wait lists and of the closed
\* marker happens while _mx is held, the registration of a parked pusher or popper, which
\* takes place when the returned future is awaited, included
C36_UnderLock == bare = {}

\* C37: the counterpart woken by push or pop (a parked popper handed the value, a parked
\* pusher whose value was promoted into the ring) is resumed only after _mx has been
\* released: no frame is resumed while the lock is held
C37_ResumedUnlocked == \A e \in woke : ~e.locked

\* a parked popper was handed a value by push and a parked pusher was promoted by pop, and
\* both have been resumed
C37_Witness ==
    /\ ~qFault
    /\ \E i \in Pushers : [frame |-> <<"pusher", i>>, locked |-> FALSE] \in woke
    /\ \E j \in Poppers : [frame |-> <<"popper", j>>, locked |-> FALSE] \in woke

(***************************************************************************)
(* Claims about the heap of generic_scheduler.                             *)
(***************************************************************************)
\* every parent's deadline is not later than its children's
IsHeap(h) == \A k \in 2..Len(h) : h[k \div 2].timestamp <= h[k].timestamp

\* the (deadline, Result, identity) entries of the vector
HeapEntries(h) == {h[k] : k \in 1..Len(h)}

\* the entries with every entry of the identity moved to the deadline
Retimed(h, ident, new_tp) ==
    {IF e.ident = ident THEN [e EXCEPT !.timestamp = new_tp] ELSE e : e \in HeapEntries(h)}

\* the entries without the first one of the identity
WithoutFirst(h, ident) ==
    LET at == {k \in 1..Len(h) : h[k].ident = ident}
    IN IF at = {} THEN HeapEntries(h)
       ELSE HeapEntries(h) \ {h[CHOOSE k \in at : \A o \in at : k <= o]}

\* schedule_at adds one entry and remove_first takes the root; nothing else changes
C38_PushPopStep ==
    /\ \A s \in MSleepers, t \in Times, id \in MIdents :
           ManualSleepUntil(s, t, id) =>
               HeapEntries(m_heap') = HeapEntries(m_heap) \cup {[timestamp |-> t, res |-> s, ident |-> id]}
    /\ ManualRemoveFirst /\ m_heap # <<>> => HeapEntries(m_heap') = HeapEntries(m_heap) \ {m_heap[1]}

\* remove_by_ident removes exactly the first matching entry
C38_RemoveStep ==
    \A id \in MIdents :
        ManualCancel(id) =>
            /\ HeapEntries(m_heap') = WithoutFirst(m_heap, id)
            /\ Len(m_heap') = Cardinality(HeapEntries(m_heap'))

\* set_time changes nothing but deadlines of entries of the identity
C38_SetTimeOnlyStep ==
    \A id \in MIdents \ {NullIdent}, t \in Times :
        ManualAlert(id, t) =>
            /\ Len(m_heap') = Len(m_heap)
            /\ \A e \in HeapEntries(m_heap') :
                   \/ e \in HeapEntries(m_heap)
                   \/ /\ e.ident = id /\ e.timestamp = t
                      /\ \E o \in HeapEntries(m_heap) : o.res = e.res /\ o.ident = id

\* set_time moves every entry of the identity to the new deadline
C38_SetTimeStep ==
    \A id \in MIdents \ {NullIdent}, t \in Times :
        ManualAlert(id, t) =>
            /\ Len(m_heap') = Len(m_heap)
            /\ HeapEntries(m_heap') = Retimed(m_heap, id, t)

\* the vector is a min-heap on the deadline after every operation
C38_HeapOrder == IsHeap(m_heap)

\* what holds of the code: the heap order, the additions and removals, and set_time touching
\* nothing but deadlines of entries of the identity
C38_HeapKept ==
    [](C38_HeapOrder) /\ [][C38_PushPopStep /\ C38_RemoveStep /\ C38_SetTimeOnlyStep]_vars

\* C38: after any sequence of schedule_at, remove_first, remove_by_ident and set_time the
\* vector is a valid min-heap on the deadline; set_time changes only the deadline of the
\* entries with the given identity, remove_by_ident removes exactly the first matching entry,
\* and every other (deadline, Result, identity) entry is still present and unchanged
C38_HeapIntact ==
    [](C38_HeapOrder) /\ [][C38_PushPopStep /\ C38_RemoveStep /\ C38_SetTimeStep]_vars

\* two entries of one identity are in the heap and an alert has moved a deadline
C38_Witness ==
    /\ \E a, b \in 1..Len(m_heap) : a # b /\ m_heap[a].ident = m_heap[b].ident
                                     /\ m_heap[a].ident # NullIdent
    /\ \E s \in MSleepers : m_upd[s]
    /\ \E s \in MSleepers : m_sl[s] = "canceled"

(***************************************************************************)
(* Claims about manual_scheduler::advance_time_until.                      *)
(***************************************************************************)
\* the root of the heap is due at the target time
DueAt(target_time) ==
    LET n == get_first_scheduled_time(m_heap) IN n # NoTime /\ n <= target_time

\* what a call does apart from the virtual time: the due root, and only it, is removed and
\* returned; with nothing due nothing is removed, the time stays and the handle is empty
C39_RemoveStep ==
    \A target_time \in Times :
        ManualAdvance(target_time) =>
            IF DueAt(target_time)
            THEN /\ HeapEntries(m_heap') = HeapEntries(m_heap) \ {m_heap[1]}
                 /\ Len(m_heap') = Len(m_heap) - 1
                 /\ m_ret' = m_heap[1].res
                 /\ \A e \in HeapEntries(m_heap) : m_heap[1].timestamp <= e.timestamp
            ELSE m_heap' = m_heap /\ m_time' = m_time /\ m_ret' = 0

\* the virtual time after a call that fired a sleeper is the deadline of that sleeper
C39_TimeStep ==
    \A target_time \in Times :
        ManualAdvance(target_time) /\ DueAt(target_time) => m_time' = m_heap[1].timestamp

\* the virtual time after a call that fired a sleeper is the target time of the call
C39_TargetStep ==
    \A target_time \in Times :
        ManualAdvance(target_time) /\ DueAt(target_time) => m_time' = target_time

\* what holds of the code: the removal as claimed, the virtual time set to the target
C39_AdvanceToTarget == [][C39_RemoveStep /\ C39_TargetStep]_vars

\* C39: advance_time_until(target): if the earliest sleeper's deadline is not later than
\* target, exactly that sleeper is removed and returned and the virtual time is set to the
\* time for which it was scheduled; otherwise nothing is removed, the virtual time is
\* unchanged and an empty handle is returned
C39_AdvanceTime == [][C39_RemoveStep /\ C39_TimeStep]_vars
(***************************************************************************)
(* PART XII: limited_queue<T, count> (src/coro_queue.h).  A user that      *)
(* follows the notes of push and pop: push only when the ring is not full, *)
(* pop only when it is not empty.                                          *)
(***************************************************************************)
InitRing ==
    /\ MutexIdle /\ FutureIdle /\ MultiIdle /\ DistIdle /\ SchedIdle /\ ManualIdle
    /\ AllIdle /\ EachIdle /\ GenIdle /\ PingIdle
    /\ QueueIdle
    /\ r_count \in Counts
    /\ r_items = [k \in 0..(r_count - 1) |-> NoVal]
    /\ r_front = 0
    /\ r_back = 0
    /\ r_next = 1
    /\ r_fifo = <<>>
    /\ r_faults = {}

\* arithmetic of unsigned int
u_sub(a, b) == (a - b + Wrap) % Wrap

u_inc(a) == (a + 1) % Wrap

limited_is_full(front, back, count) == u_sub(front, back) >= count

limited_is_empty(front, back) == u_sub(front, back) = 0

\* limited_queue::push: the slot _front % count is constructed, _front is incremented
limited_push(items, front, count, v) ==
    [items |-> [items EXCEPT ![front % count] = v], front |-> u_inc(front)]

\* limited_queue::pop: the slot _back % count is moved from and destroyed, _back is incremented
limited_pop(items, back, count) ==
    [items |-> [items EXCEPT ![back % count] = NoVal], back |-> u_inc(back),
     slot |-> items[back % count]]

\* q.push(v) on a ring that is not full
LimitedPush ==
    /\ ~limited_is_full(r_front, r_back, r_count)
    /\ LET r == limited_push(r_items, r_front, r_count, r_next)
       IN /\ r_items' = r.items
          /\ r_front' = r.front
          /\ r_faults' = IF r_items[r_front % r_count] # NoVal
                         THEN r_faults \cup {"overwrite"} ELSE r_faults
    /\ r_fifo' = Append(r_fifo, r_next)
    /\ r_next' = (r_next % (MaxCount + 1)) + 1
    /\ UNCHANGED <<r_count, r_back>>
    /\ UNCHANGED notRing

\* q.pop() on a ring that is not empty, returning r; the value read from a slot without a
\* live item is any value
LimitedPop(r) ==
    /\ ~limited_is_empty(r_front, r_back)
    /\ LET p == limited_pop(r_items, r_back, r_count)
           dead == p.slot = NoVal
       IN /\ IF dead THEN TRUE ELSE r = p.slot
          /\ r_items' = p.items
          /\ r_back' = p.back
          /\ r_faults' = r_faults \cup (IF dead THEN {"dead"} ELSE {})
                                  \cup (IF r_fifo = <<>> \/ r # Head(r_fifo) THEN {"order"} ELSE {})
    /\ r_fifo' = IF r_fifo = <<>> THEN r_fifo ELSE Tail(r_fifo)
    /\ UNCHANGED <<r_count, r_front, r_next>>
    /\ UNCHANGED notRing

NextRing ==
    \/ LimitedPush
    \/ \E r \in RingVals : LimitedPop(r)

SpecRing == InitRing /\ [][NextRing]_vars

\* is_full and is_empty tell whether count items, or none, are pushed and not popped
C40_FullEmpty ==
    /\ limited_is_full(r_front, r_back, r_count) <=> Len(r_fifo) >= r_count
    /\ limited_is_empty(r_front, r_back) <=> r_fifo = <<>>
    /\ Len(r_fifo) <= r_count

\* the counters have wrapped and the ring was not empty when they did
Wrapped == r_front < r_back

\* C40: limited_queue stays a correct FIFO ring when its unsigned counters _front and _back
\* wrap around: for every capacity count, capacities that do not divide 2^w included,
\* is_full and is_empty stay correct across the wrap and pop keeps returning the items in
\* the order they were pushed, never reading a slot that holds no live item
C40_Wraparound == C40_FullEmpty /\ r_faults = {}

\* the same for the capacities that divide 2^w
C40_WraparoundDividing == (Wrap % r_count = 0) => (C40_FullEmpty /\ r_faults = {})

\* a ring whose capacity divides 2^w is full across the wrap of _front
C40_WitnessDividing == Wrap % r_count = 0 /\ r_count > 1 /\ Wrapped /\ Len(r_fifo) = r_count

====
